---- MODULE Spec2Model ----
(***************************************************************************)
(* Inventory-management backend: the products table, the REST handlers of  *)
(* backend/main.py, the pydantic request models of backend/models.py and   *)
(* the DatabaseManager of backend/database.py.                             *)
(*                                                                         *)
(* Text values (name, category) are sequences of one-character strings so  *)
(* that str.strip() is computed.  An Optional value is a sequence of       *)
(* length at most one: <<>> is None, <<v>> is the value v.  A submitted    *)
(* price is counted in thousandths, a validated or stored price in cents   *)
(* (two decimals), so that round(v, 2) is a conversion.                    *)
(***************************************************************************)
EXTENDS Integers, Sequences, FiniteSets, TLC

\* ------------------------------------------------------------------ bounds
\* AUTO_INCREMENT ids handed out in one run: 1..MaxId.
MaxId == 2
\* Requests accepted from clients in one run.
MaxRequests == 2
\* Statements in one execute_transaction call.
MaxTxnLen == 2

\* ------------------------------------------------------- program constants
\* pool_size of the MySQLConnectionPool.
PoolSize == 10

Workers == {"w1", "w2"}
Ids == 1..MaxId

None == <<>>
Some(v) == <<v>>
IsNone(o) == o = <<>>

\* ------------------------------------------------------------- conversions
\* str.strip(): leading and trailing blanks removed.
RECURSIVE LStrip(_)
LStrip(s) == IF s # <<>> /\ Head(s) = " " THEN LStrip(Tail(s)) ELSE s

RECURSIVE RStrip(_)
RStrip(s) ==
    IF s # <<>> /\ s[Len(s)] = " " THEN RStrip(SubSeq(s, 1, Len(s) - 1)) ELSE s

Strip(s) == RStrip(LStrip(s))

\* Thousandths whose binary double lies below the decimal midpoint, so that
\* Python's round(v, 2) rounds them down (round(0.015, 2) = 0.01,
\* round(5.005, 2) = 5.0); every other tie of the inputs rounds up.
TiesDown == {15, 5005}

\* Mutant of Round2: the third decimal is cut off instead of rounded.
Truncate2(m) == m \div 10

\* round(v, 2) of a float v given in thousandths; the result is in cents.
Round2(m) ==
    LET q == m \div 10
        r == m % 10
    IN  IF r < 5 THEN q
        ELSE IF r > 5 THEN q + 1
        ELSE IF m \in TiesDown THEN q ELSE q + 1

\* ------------------------------------------------------------ request bodies
\* A JSON body: every field is Optional (absent or null is None).
NoBody ==
    [name |-> None, category |-> None, quantity |-> None, price |-> None,
     description |-> None]

\* Mutant of ValidText: the validator's strip() test is left out.
ValidTextUnstripped(s) == Len(s) >= 1

\* Field(..., min_length=1) followed by the validator: not v.strip() is an error.
ValidText(s) == Len(s) >= 1 /\ Strip(s) # <<>>

\* Field(..., ge=0) and validate_quantity.
ValidQuantity(q) == q >= 0

\* Field(..., gt=0) and validate_price, on the submitted value.
ValidPrice(m) == m > 0

\* ProductCreate accepts the body: the four required fields are present and valid.
ValidCreate(b) ==
    /\ ~IsNone(b.name) /\ ValidText(b.name[1])
    /\ ~IsNone(b.category) /\ ValidText(b.category[1])
    /\ ~IsNone(b.quantity) /\ ValidQuantity(b.quantity[1])
    /\ ~IsNone(b.price) /\ ValidPrice(b.price[1])

\* ProductUpdate accepts the body: every present field is valid.
ValidUpdate(b) ==
    /\ IF IsNone(b.name) THEN TRUE ELSE ValidText(b.name[1])
    /\ IF IsNone(b.category) THEN TRUE ELSE ValidText(b.category[1])
    /\ IF IsNone(b.quantity) THEN TRUE ELSE ValidQuantity(b.quantity[1])
    /\ IF IsNone(b.price) THEN TRUE ELSE ValidPrice(b.price[1])

\* The model instance the handler receives: text stripped, price rounded to cents.
Validated(b) ==
    [name        |-> IF IsNone(b.name) THEN None ELSE Some(Strip(b.name[1])),
     category    |-> IF IsNone(b.category) THEN None ELSE Some(Strip(b.category[1])),
     quantity    |-> b.quantity,
     price       |-> IF IsNone(b.price) THEN None ELSE Some(Round2(b.price[1])),
     description |-> b.description]

\* ------------------------------------------------------------ products table
\* A table is a function from the ids of its rows to the rows.
EmptyTable == [i \in {} |-> 0]

\* A row; created_at is the second in which it was inserted, counted from the
\* first insert (updated_at is not read by any handler and is left out).
Row(id, v, at) ==
    [id |-> id, name |-> v.name[1], category |-> v.category[1],
     quantity |-> v.quantity[1], price |-> v.price[1],
     description |-> v.description, created_at |-> at]

\* The latest created_at of a table.
Latest(tbl) ==
    IF DOMAIN tbl = {} THEN 0
    ELSE CHOOSE t \in {tbl[i].created_at : i \in DOMAIN tbl} :
             \A i \in DOMAIN tbl : tbl[i].created_at <= t

\* The created_at an insert can get: the second of the latest row, or a later one.
Stamps(tbl) == IF DOMAIN tbl = {} THEN {1} ELSE {Latest(tbl), Latest(tbl) + 1}

\* INSERT INTO products (name, category, quantity, price, description) VALUES (...)
InsertRow(tbl, id, v, at) ==
    [i \in DOMAIN tbl \cup {id} |-> IF i = id THEN Row(id, v, at) ELSE tbl[i]]

\* Mutant of SetFields: description is assigned whether or not it is present.
SetFieldsAlways(row, v) ==
    [id          |-> row.id,
     name        |-> IF IsNone(v.name) THEN row.name ELSE v.name[1],
     category    |-> IF IsNone(v.category) THEN row.category ELSE v.category[1],
     quantity    |-> IF IsNone(v.quantity) THEN row.quantity ELSE v.quantity[1],
     price       |-> IF IsNone(v.price) THEN row.price ELSE v.price[1],
     description |-> v.description,
     created_at  |-> row.created_at]

\* The SET list built by update_product: one assignment per field that is not None.
SetFields(row, v) ==
    [id          |-> row.id,
     name        |-> IF IsNone(v.name) THEN row.name ELSE v.name[1],
     category    |-> IF IsNone(v.category) THEN row.category ELSE v.category[1],
     quantity    |-> IF IsNone(v.quantity) THEN row.quantity ELSE v.quantity[1],
     price       |-> IF IsNone(v.price) THEN row.price ELSE v.price[1],
     description |-> IF IsNone(v.description) THEN row.description ELSE v.description,
     created_at  |-> row.created_at]

\* Mutant of UpdateRow: a row that is not there is written anew.
UpdateRowOrInsert(tbl, id, v) ==
    IF id \in DOMAIN tbl THEN [tbl EXCEPT ![id] = SetFields(@, v)]
    ELSE [i \in DOMAIN tbl \cup {id} |->
             IF i = id
             THEN SetFields([id |-> id, name |-> <<>>, category |-> <<>>, quantity |-> 0,
                             price |-> 0, description |-> None, created_at |-> 1], v)
             ELSE tbl[i]]

\* UPDATE products SET ... WHERE id = %s
UpdateRow(tbl, id, v) ==
    IF id \in DOMAIN tbl THEN [tbl EXCEPT ![id] = SetFields(@, v)] ELSE tbl

\* Mutant of DeleteRow: a DELETE whose WHERE clause matches every row.
DeleteRowAll(tbl, id) == IF id \in DOMAIN tbl THEN EmptyTable ELSE tbl

\* DELETE FROM products WHERE id = %s
DeleteRow(tbl, id) == [i \in DOMAIN tbl \ {id} |-> tbl[i]]

\* Mutant of RowsAffected: the rowcount is 1 whether or not a row was there.
RowsAffectedAlwaysOne(tbl, id) == 1

\* cursor.rowcount of the DELETE.
RowsAffected(tbl, id) == IF id \in DOMAIN tbl THEN 1 ELSE 0

\* update_fields is empty: no field of the body is present.
NoFields(v) ==
    /\ IsNone(v.name) /\ IsNone(v.category) /\ IsNone(v.quantity)
    /\ IsNone(v.price) /\ IsNone(v.description)

\* The Product model built from a fetched row accepts it (ProductBase constraints).
RowValid(r) ==
    /\ ValidText(r.name) /\ ValidText(r.category)
    /\ r.quantity >= 0 /\ r.price > 0

\* ------------------------------------------------------------------ queries
\* quantity < 10, written as a literal in get_products, get_dashboard_stats and
\* the report generators.
LowStockThreshold == 10

\* The largest limit GET /products accepts.
MaxLimit == 1000

\* The query parameters of GET /products with their defaults.
NoQuery ==
    [skip |-> 0, limit |-> 100, category |-> None, search |-> None,
     low_stock |-> None]

\* Mutant of ValidPage: limit has no upper bound.
ValidPageNoUpper(q) == q.skip >= 0 /\ q.limit >= 1

\* skip: Query(0, ge=0); limit: Query(100, ge=1, le=1000)
ValidPage(q) == q.skip >= 0 /\ q.limit >= 1 /\ q.limit <= MaxLimit

\* "if category:", "if search:": the parameter is given and not the empty string.
TruthyText(o) == IF IsNone(o) THEN FALSE ELSE o[1] # <<>>

\* Mutant of TruthyFlag: the parameter is given.
TruthyFlagGiven(o) == ~IsNone(o)

\* "if low_stock:": the parameter is given and true.
TruthyFlag(o) == IF IsNone(o) THEN FALSE ELSE o[1]

\* LIKE %s with the argument %s%: s occurs in t (no wildcard is among the
\* characters of the inputs).  A NULL description, the empty sequence, matches
\* nothing.
Contains(t, s) ==
    \E i \in 1..(Len(t) - Len(s) + 1) : SubSeq(t, i, i + Len(s) - 1) = s

\* A statement is the sequence of the pieces of its text, each %s placeholder
\* a piece of its own; params is the argument list that goes with it.
Placeholder == "%s"

\* The pieces of the conditions, as get_products and build_search_query write them.
CondCategory == <<"category = ", Placeholder>>
CondMinPrice == <<"price >= ", Placeholder>>
CondMaxPrice == <<"price <= ", Placeholder>>
CondMinQuantity == <<"quantity >= ", Placeholder>>
CondMaxQuantity == <<"quantity <= ", Placeholder>>
CondSearch ==
    <<"(name LIKE ", Placeholder, " OR description LIKE ", Placeholder, ")">>
CondLowStock == <<"quantity < 10">>

\* f"%{search}%"
Wildcarded(s) == <<"%">> \o s \o <<"%">>

\* The filters build_search_query reads with filters.get, None when the key is
\* missing or holds None.
NoFilters ==
    [category |-> None, min_price |-> None, max_price |-> None,
     min_quantity |-> None, max_quantity |-> None, search |-> None,
     low_stock |-> None]

\* conditions and params after each "if" of build_search_query, in its order.
FilterConditions(f) ==
    LET c1 == IF TruthyText(f.category)
              THEN <<[cond |-> CondCategory, params |-> <<f.category[1]>>]>> ELSE <<>>
        c2 == IF ~IsNone(f.min_price)
              THEN <<[cond |-> CondMinPrice, params |-> <<f.min_price[1]>>]>> ELSE <<>>
        c3 == IF ~IsNone(f.max_price)
              THEN <<[cond |-> CondMaxPrice, params |-> <<f.max_price[1]>>]>> ELSE <<>>
        c4 == IF ~IsNone(f.min_quantity)
              THEN <<[cond |-> CondMinQuantity, params |-> <<f.min_quantity[1]>>]>> ELSE <<>>
        c5 == IF ~IsNone(f.max_quantity)
              THEN <<[cond |-> CondMaxQuantity, params |-> <<f.max_quantity[1]>>]>> ELSE <<>>
        c6 == IF TruthyText(f.search)
              THEN <<[cond |-> CondSearch,
                      params |-> <<Wildcarded(f.search[1]), Wildcarded(f.search[1])>>]>>
              ELSE <<>>
        c7 == IF TruthyFlag(f.low_stock)
              THEN <<[cond |-> CondLowStock, params |-> <<>>]>> ELSE <<>>
    IN  c1 \o c2 \o c3 \o c4 \o c5 \o c6 \o c7

\* Mutant of JoinAnd: each condition is followed by its values in the text.
RECURSIVE JoinAndValues(_)
JoinAndValues(cs) ==
    IF cs = <<>> THEN <<>>
    ELSE IF Len(cs) = 1 THEN cs[1].cond \o cs[1].params
    ELSE cs[1].cond \o cs[1].params \o <<" AND ">> \o JoinAndValues(Tail(cs))

\* ' AND '.join(conditions)
RECURSIVE JoinAnd(_)
JoinAnd(cs) ==
    IF cs = <<>> THEN <<>>
    ELSE IF Len(cs) = 1 THEN cs[1].cond
    ELSE cs[1].cond \o <<" AND ">> \o JoinAnd(Tail(cs))

\* Mutant of AllParams: the arguments of a later condition come first.
RECURSIVE AllParamsReversed(_)
AllParamsReversed(cs) ==
    IF cs = <<>> THEN <<>> ELSE AllParamsReversed(Tail(cs)) \o cs[1].params

RECURSIVE AllParams(_)
AllParams(cs) == IF cs = <<>> THEN <<>> ELSE cs[1].params \o AllParams(Tail(cs))

\* Mutant of BuildSearchQuery: WHERE is written whether or not a condition follows.
BuildSearchQueryAlwaysWhere(base, f) ==
    [query |-> base \o <<" WHERE ">> \o JoinAnd(FilterConditions(f)),
     params |-> AllParams(FilterConditions(f))]

\* build_search_query(base_query, filters)
BuildSearchQuery(base, f) ==
    LET cs == FilterConditions(f)
    IN  [query |-> IF cs # <<>> THEN base \o <<" WHERE ">> \o JoinAnd(cs) ELSE base,
         params |-> AllParams(cs)]

\* Mutant of PageParams: skip is appended before limit.
PageParamsSkipFirst(q) == <<q.skip, q.limit>>

\* The arguments get_products appends for LIMIT %s OFFSET %s.
PageParams(q) == <<q.limit, q.skip>>

\* The statement and argument list get_products builds from its parameters.
ListQuery(q) ==
    LET c1 == IF TruthyText(q.category)
              THEN [query |-> <<" AND ">> \o CondCategory, params |-> <<q.category[1]>>]
              ELSE [query |-> <<>>, params |-> <<>>]
        c2 == IF TruthyText(q.search)
              THEN [query |-> <<" AND ">> \o CondSearch,
                    params |-> <<Wildcarded(q.search[1]), Wildcarded(q.search[1])>>]
              ELSE [query |-> <<>>, params |-> <<>>]
        c3 == IF TruthyFlag(q.low_stock)
              THEN [query |-> <<" AND ">> \o CondLowStock, params |-> <<>>]
              ELSE [query |-> <<>>, params |-> <<>>]
    IN  [query |-> <<"SELECT * FROM products WHERE 1=1">>
                   \o c1.query \o c2.query \o c3.query
                   \o <<" ORDER BY created_at DESC LIMIT ", Placeholder,
                        " OFFSET ", Placeholder>>,
         params |-> c1.params \o c2.params \o c3.params \o PageParams(q)]

\* column LIKE pattern, for a pattern %s%.
Like(t, pattern) == Contains(t, SubSeq(pattern, 2, Len(pattern) - 1))

\* What the storage engine makes of the conditions of a statement on one row:
\* each placeholder takes the next argument of the list.
RECURSIVE Where(_, _, _)
Where(row, query, params) ==
    IF query = <<>> THEN TRUE
    ELSE LET piece == Head(query)
             after1 == Where(row, Tail(Tail(query)), Tail(params))
         IN  IF piece = "category = " THEN row.category = params[1] /\ after1
             ELSE IF piece = "price >= " THEN row.price >= params[1] /\ after1
             ELSE IF piece = "price <= " THEN row.price <= params[1] /\ after1
             ELSE IF piece = "quantity >= " THEN row.quantity >= params[1] /\ after1
             ELSE IF piece = "quantity <= " THEN row.quantity <= params[1] /\ after1
             ELSE IF piece = "(name LIKE "
             THEN /\ Like(row.name, params[1]) \/ Like(row.description, params[2])
                  /\ Where(row, SubSeq(query, 6, Len(query)), Tail(Tail(params)))
             ELSE IF piece = "quantity < 10"
             THEN row.quantity < LowStockThreshold /\ Where(row, Tail(query), params)
             ELSE IF piece = " ORDER BY created_at DESC LIMIT " THEN TRUE
             ELSE Where(row, Tail(query), params)

\* LIMIT %s OFFSET %s: the last two arguments of the list, in that order.
LimitOf(params) == params[Len(params) - 1]
OffsetOf(params) == params[Len(params)]

\* The rows the statement of get_products selects.
Matches(row, q) == Where(row, ListQuery(q).query, ListQuery(q).params)

\* The sequences that hold every element of S once.
Perms(S) ==
    {f \in [1..Cardinality(S) -> S] :
        \A i, j \in 1..Cardinality(S) : i # j => f[i] # f[j]}

\* ORDER BY: the orders of S in which no element comes after one it is
\* before; elements that tie come in any order.
Orderings(S, Before(_, _)) ==
    {f \in Perms(S) : \A i, j \in 1..Cardinality(S) : i < j => ~Before(f[j], f[i])}

\* Mutant of NewestFirst: ORDER BY created_at ASC.
OldestFirst(tbl, q) ==
    LET Older(a, b) == tbl[a].created_at < tbl[b].created_at
    IN  Orderings({i \in DOMAIN tbl : Matches(tbl[i], q)}, Older)

\* ORDER BY created_at DESC over the ids of the matching rows.
NewestFirst(tbl, q) ==
    LET Newer(a, b) == tbl[a].created_at > tbl[b].created_at
    IN  Orderings({i \in DOMAIN tbl : Matches(tbl[i], q)}, Newer)

\* LIMIT %s OFFSET %s with the arguments (limit, skip).
Page(ord, skip, limit) ==
    SubSeq(ord, skip + 1, IF skip + limit < Len(ord) THEN skip + limit ELSE Len(ord))

\* The characters of the model's text, in collation order.
Alphabet == <<" ", "a", "b", "c", "d", "x">>
CharRank(c) == CHOOSE i \in 1..Len(Alphabet) : Alphabet[i] = c

\* s sorts before t.
RECURSIVE TextBefore(_, _)
TextBefore(s, t) ==
    IF t = <<>> THEN FALSE
    ELSE IF s = <<>> THEN TRUE
    ELSE IF Head(s) # Head(t) THEN CharRank(Head(s)) < CharRank(Head(t))
    ELSE TextBefore(Tail(s), Tail(t))

\* SELECT * FROM products ORDER BY name
ByName(tbl) ==
    LET Before(a, b) == TextBefore(tbl[a].name, tbl[b].name)
    IN  Orderings(DOMAIN tbl, Before)

\* Mutant of ByQuantityThenName: ORDER BY quantity ASC.
ByQuantityOnly(tbl) ==
    LET Before(a, b) == tbl[a].quantity < tbl[b].quantity
    IN  Orderings(DOMAIN tbl, Before)

\* SELECT * FROM products ORDER BY quantity ASC, name
ByQuantityThenName(tbl) ==
    LET Before(a, b) ==
            \/ tbl[a].quantity < tbl[b].quantity
            \/ /\ tbl[a].quantity = tbl[b].quantity
               /\ TextBefore(tbl[a].name, tbl[b].name)
    IN  Orderings(DOMAIN tbl, Before)

\* The rows of the ids of ord, in that order.
RowsOf(tbl, ord) == [i \in 1..Len(ord) |-> tbl[ord[i]]]

\* The sum of quantity * price, in cents, over the rows of the ids of S.
RECURSIVE ValueOf(_, _)
ValueOf(tbl, S) ==
    IF S = {} THEN 0
    ELSE LET i == CHOOSE y \in S : TRUE
         IN  tbl[i].quantity * tbl[i].price + ValueOf(tbl, S \ {i})

\* Mutant of InventoryValue: SUM(price).
InventoryValueOfPrices(tbl) == ValueOf([i \in DOMAIN tbl |-> [tbl[i] EXCEPT !.quantity = 1]], DOMAIN tbl)

\* SELECT SUM(quantity * price) FROM products; NULL on an empty table, which
\* get_dashboard_stats reads as 0.0.
InventoryValue(tbl) == ValueOf(tbl, DOMAIN tbl)

\* SELECT COUNT(*) FROM products WHERE quantity < 10
LowStockCount(tbl) ==
    Cardinality({i \in DOMAIN tbl : tbl[i].quantity < LowStockThreshold})

\* SELECT DISTINCT category FROM products
Categories(tbl) == {tbl[i].category : i \in DOMAIN tbl}

\* SELECT category, COUNT(*) ... GROUP BY category ORDER BY count DESC LIMIT 5,
\* as the count of each category (the order among equal counts is the engine's).
CategoryCounts(tbl) ==
    [c \in Categories(tbl) |-> Cardinality({i \in DOMAIN tbl : tbl[i].category = c})]

\* SELECT COUNT(*) ... WHERE created_at >= DATE_SUB(NOW(), INTERVAL 7 DAY),
\* cut being the second seven days before now.
RecentCount(tbl, cut) ==
    Cardinality({i \in DOMAIN tbl : tbl[i].created_at >= cut})

\* ------------------------------------------------------------- PDFGenerator
\* A document is modelled by what the generator puts in it: the generation
\* time it prints, the summary figures, whether it has a data table, and the
\* table's rows in order.
FullNameWidth == 30
LowNameWidth == 25
CriticalBelow == 5
ReorderTarget == 20
MinReorder == 10

\* name[:n] + '...' if len(name) > n else name
Ellipsis(name, n) ==
    IF Len(name) > n THEN SubSeq(name, 1, n) \o <<".", ".", ".">> ELSE name

Max(a, b) == IF a >= b THEN a ELSE b

IsLowStock(p) == p.quantity < LowStockThreshold

\* sum(p.quantity * p.price for p in products), in cents.
RECURSIVE TotalValue(_)
TotalValue(ps) ==
    IF ps = <<>> THEN 0
    ELSE Head(ps).quantity * Head(ps).price + TotalValue(Tail(ps))

RECURSIVE TotalQuantity(_)
TotalQuantity(ps) ==
    IF ps = <<>> THEN 0 ELSE Head(ps).quantity + TotalQuantity(Tail(ps))

\* list.sort(key=lambda p: p.quantity): a stable sort, each product placed
\* behind the products before it that have no larger quantity.
RECURSIVE SortByQuantity(_)
SortByQuantity(ps) ==
    IF ps = <<>> THEN <<>>
    ELSE LET done == SortByQuantity(SubSeq(ps, 1, Len(ps) - 1))
             p == ps[Len(ps)]
             k == Cardinality({i \in 1..Len(done) : done[i].quantity <= p.quantity})
         IN  SubSeq(done, 1, k) \o <<p>> \o SubSeq(done, k + 1, Len(done))

FullRow(p) ==
    [id |-> p.id, name |-> Ellipsis(p.name, FullNameWidth), category |-> p.category,
     quantity |-> p.quantity, price |-> p.price, total |-> p.quantity * p.price,
     status |-> IF IsLowStock(p) THEN "Low Stock" ELSE "In Stock"]

\* generate_full_product_list; now is what datetime.now() returns inside it.
GenerateFullProductList(ps, now) ==
    [kind |-> "full", stamp |-> now, count |-> Len(ps), notice |-> FALSE,
     summary |-> Some([quantity |-> TotalQuantity(ps), value |-> TotalValue(ps),
                       low |-> Len(SelectSeq(ps, IsLowStock))]),
     table |-> TRUE,
     rows |-> [i \in 1..Len(ps) |-> FullRow(ps[i])]]

\* Mutant of LowStockRow: a quantity of 5 is critical too.
LowStockRowCriticalAtFive(p) ==
    [priority |-> IF p.quantity <= CriticalBelow THEN "Critical" ELSE "Low",
     id |-> p.id, name |-> Ellipsis(p.name, LowNameWidth), category |-> p.category,
     quantity |-> p.quantity, price |-> p.price, total |-> p.quantity * p.price,
     reorder |-> Max(ReorderTarget - p.quantity, MinReorder)]

\* One row of the low-stock table: priority, the product, suggested reorder.
LowStockRow(p) ==
    [priority |-> IF p.quantity < CriticalBelow THEN "Critical" ELSE "Low",
     id |-> p.id, name |-> Ellipsis(p.name, LowNameWidth), category |-> p.category,
     quantity |-> p.quantity, price |-> p.price, total |-> p.quantity * p.price,
     reorder |-> Max(ReorderTarget - p.quantity, MinReorder)]

\* Mutant of LowStockProducts: the caller is trusted to have filtered.
LowStockProductsUnfiltered(ps) == ps

\* low_stock_products = [p for p in products if p.quantity < 10]
LowStockProducts(ps) == SelectSeq(ps, IsLowStock)

\* generate_low_stock_report; now is what datetime.now() returns inside it.
GenerateLowStockReport(ps, now) ==
    LET low == LowStockProducts(ps)
        sorted == SortByQuantity(low)
    IN  [kind |-> "low_stock", stamp |-> now, count |-> Len(low),
         notice |-> low = <<>>,
         summary |-> IF low = <<>> THEN None
                     ELSE Some([items |-> Len(low),
                                critical |-> Len(SelectSeq(low, LAMBDA p : p.quantity < CriticalBelow)),
                                value |-> TotalValue(low)]),
         table |-> low # <<>>,
         rows |-> IF low = <<>> THEN <<>>
                  ELSE [i \in 1..Len(sorted) |-> LowStockRow(sorted[i])]]

\* What datetime.now() can return.
WallClock == {1, 2}

\* ---------------------------------------------------------------- responses
\* A response: status, returned data, name in the delete confirmation, and for
\* an error built from an exception the handler that built it and str(e).
Resp(status) ==
    [status |-> status, data |-> None, deleted |-> None, detail |-> None]

RespProduct(row) == [Resp(200) EXCEPT !.data = Some(row)]

RespDeleted(name) == [Resp(200) EXCEPT !.deleted = Some(name)]

\* except Exception as e: HTTPException(500, detail=f"Failed to ...: {str(e)}")
\* built by handler by; cause is what the exception says.
Failure(by, cause) ==
    [Resp(500) EXCEPT !.detail = Some([by |-> by, cause |-> cause])]

\* Mutant of GetProductResp: a failed SELECT is taken for an empty result.
GetProductRespSwallow(tbl, id, out) ==
    IF out # "ok" THEN Resp(404)
    ELSE IF id \notin DOMAIN tbl THEN Resp(404)
    ELSE IF ~RowValid(tbl[id]) THEN Failure("get_product", "validation")
    ELSE RespProduct(tbl[id])

\* get_product: one SELECT by id; out is the outcome of the storage call.
GetProductResp(tbl, id, out) ==
    IF out # "ok" THEN Failure("get_product", out)
    ELSE IF id \notin DOMAIN tbl THEN Resp(404)
    ELSE IF ~RowValid(tbl[id]) THEN Failure("get_product", "validation")
    ELSE RespProduct(tbl[id])

\* ------------------------------------------------------------------- inputs
\* Two valid bodies that differ in every field; their text carries blanks to
\* strip and their prices a third decimal to round (19.999, 5.004).
BodyA ==
    [name |-> Some(<<" ", "a", " ">>), category |-> Some(<<"c", " ">>),
     quantity |-> Some(3), price |-> Some(19999), description |-> None]

BodyB ==
    [name |-> Some(<<"b">>), category |-> Some(<<" ", "d">>),
     quantity |-> Some(12), price |-> Some(5004), description |-> Some("x")]

\* A price that passes gt=0 and rounds to 0.00.
TinyPrice == Some(4)

\* BodyA with one field refused by ProductCreate, and the body of
\* test_create_product_invalid_data (empty name, quantity -1, price 0).
BadCreateBodies ==
    {[BodyA EXCEPT !.name = Some(<<>>)],
     [BodyA EXCEPT !.name = None],
     [BodyA EXCEPT !.category = Some(<<" ">>)],
     [BodyA EXCEPT !.quantity = Some(0 - 1)],
     [BodyA EXCEPT !.price = Some(0)],
     [BodyA EXCEPT !.price = Some(0 - 5000)],
     [BodyA EXCEPT !.name = Some(<<>>), !.quantity = Some(0 - 1), !.price = Some(0)]}

CreateBodies ==
    {BodyA, BodyB, [BodyA EXCEPT !.price = TinyPrice]} \cup BadCreateBodies

\* Partial bodies: no field, each single field of BodyB, the three fields of
\* sample_product_update, and all five fields.
PartialBodies ==
    {NoBody, BodyB,
     [NoBody EXCEPT !.name = BodyB.name],
     [NoBody EXCEPT !.category = BodyB.category],
     [NoBody EXCEPT !.quantity = BodyB.quantity],
     [NoBody EXCEPT !.price = BodyB.price],
     [NoBody EXCEPT !.description = BodyB.description],
     [NoBody EXCEPT !.name = BodyB.name, !.quantity = BodyB.quantity,
                    !.price = BodyB.price]}

BadUpdateBodies ==
    {[NoBody EXCEPT !.name = Some(<<" ">>)],
     [NoBody EXCEPT !.category = Some(<<>>)],
     [BodyB EXCEPT !.quantity = Some(0 - 1)],
     [NoBody EXCEPT !.price = Some(0)]}

UpdateBodies ==
    PartialBodies \cup BadUpdateBodies
    \cup {[NoBody EXCEPT !.price = TinyPrice],
          [NoBody EXCEPT !.name = BodyA.name, !.price = TinyPrice]}

\* What a storage call can do: succeed; raise from cursor.execute before the
\* statement has run; raise PoolError from get_connection; or (a write under
\* autocommit) raise from connection.commit() after the statement ran.  The
\* exception's message says which.
ReadOutcomes == {"ok", "error", "pool"}
WriteOutcomes == {"ok", "error", "pool", "late"}

\* The statement of a storage call with this outcome did not run.
NotRun(out) == out \in {"error", "pool"}

\* -------------------------------------------------------------------- state
VARIABLES
    products,   \* the products table
    nextId,     \* the next AUTO_INCREMENT id
    pc,         \* per worker: where its handler stands
    req,        \* per worker: the request it is serving
    loc,        \* per worker: the handler's locals between storage calls
    last,       \* the request completed last, with its response
    served,     \* requests accepted so far
    okDeletes,  \* per id: delete requests answered with success so far
    pool,       \* connections waiting in the pool's queue
    dbop,       \* the DatabaseManager operation in progress
    dbres,      \* the outcome of the last DatabaseManager operation
    input,      \* the arguments a function of utils.py or pdf_generator.py is called with
    output      \* what that function returned

vars ==
    <<products, nextId, pc, req, loc, last, served, okDeletes, pool, dbop, dbres,
      input, output>>
apiVars == <<pc, req, loc, last, served, okDeletes>>
dbVars == <<pool, dbop, dbres>>
fnVars == <<input, output>>

\* A request, with what held when it was accepted: its number in the order of
\* acceptance, whether every other worker was idle, whether its id was stored.
NoReq ==
    [op |-> "none", id |-> 0, body |-> NoBody, seq |-> 0, solo |-> TRUE,
     existed |-> FALSE, query |-> NoQuery]
NoCalls == [reads |-> 0, writes |-> 0, errors |-> 0, matched |-> None]
NoStats == [total |-> 0, categories |-> 0, low |-> 0, value |-> 0, recent |-> 0]
NoLoc == [id |-> 0, name |-> None, calls |-> NoCalls, stats |-> NoStats]
DbIdle ==
    [kind |-> "idle", stmts |-> <<>>, next |-> 0, before |-> EmptyTable,
     nid |-> 0, work |-> EmptyTable]
NoDbRes ==
    [kind |-> "none", ok |-> TRUE, value |-> 0, stmts |-> <<>>,
     before |-> EmptyTable, nid |-> 0, done |-> 0]

ApiInit ==
    /\ pc = [w \in Workers |-> "idle"]
    /\ req = [w \in Workers |-> NoReq]
    /\ loc = [w \in Workers |-> NoLoc]
    /\ last = [to |-> "none", req |-> NoReq, resp |-> Resp(0), calls |-> NoCalls]
    /\ served = 0
    /\ okDeletes = [i \in Ids |-> 0]

DbInit ==
    /\ pool = PoolSize
    /\ dbop = DbIdle
    /\ dbres = NoDbRes

\* The table as setup_database.py leaves it: empty, or holding a sample product.
SeedTable == InsertRow(EmptyTable, 1, Validated(BodyA), 1)

\* No function of utils.py or pdf_generator.py has been called on its own.
NoInput ==
    [filters |-> NoFilters, skip |-> 0, limit |-> 100, products |-> <<>>, now |-> 0]
NoOutput == [kind |-> "none", first |-> <<>>, second |-> <<>>]

FnInit ==
    /\ input = NoInput
    /\ output = NoOutput

Init ==
    /\ products \in {EmptyTable, SeedTable}
    /\ nextId = Cardinality(DOMAIN products) + 1
    /\ ApiInit
    /\ DbInit
    /\ FnInit

\* ----------------------------------------------------------------- handlers
\* A handler runs from one storage call to the next in one step: the event
\* loop runs it without suspension, and only another server process (the
\* other worker) can reach the table between two of its storage calls.

\* A worker takes a new request.
Accept(w) ==
    /\ pc[w] = "idle"
    /\ served < MaxRequests
    /\ served' = served + 1

\* The request a worker accepts now.
Request(w, op, id, b) ==
    [op |-> op, id |-> id, body |-> b, seq |-> served + 1,
     solo |-> \A x \in Workers \ {w} : pc[x] = "idle",
     existed |-> id \in DOMAIN products, query |-> NoQuery]

\* Request rq of worker w ends with response r after the given storage calls.
Finish(w, rq, r, calls) ==
    /\ pc' = [pc EXCEPT ![w] = "idle"]
    /\ req' = [req EXCEPT ![w] = NoReq]
    /\ loc' = [loc EXCEPT ![w] = NoLoc]
    /\ last' = [to |-> w, req |-> rq, resp |-> r, calls |-> calls]

\* The handler of rq goes on to its next storage call with locals l.
Continue(w, rq, at, l) ==
    /\ pc' = [pc EXCEPT ![w] = at]
    /\ req' = [req EXCEPT ![w] = rq]
    /\ loc' = [loc EXCEPT ![w] = l]
    /\ UNCHANGED last

\* The storage calls of a request so far: reads, writes, how many raised, and
\* the number of rows the WHERE clause of its UPDATE or DELETE matched.
Matching(calls, out, rows) ==
    IF NotRun(out) THEN calls ELSE [calls EXCEPT !.matched = Some(rows)]
Raised(calls, out) ==
    IF out = "ok" THEN calls ELSE [calls EXCEPT !.errors = @ + 1]
Read(calls, out) == Raised([calls EXCEPT !.reads = @ + 1], out)
Write(calls, out) == Raised([calls EXCEPT !.writes = @ + 1], out)

\* GET /products/{id}
GetProduct(w, id, out) ==
    /\ Accept(w)
    /\ Finish(w, Request(w, "get", id, NoBody),
              GetProductResp(products, id, out), Read(NoCalls, out))
    /\ UNCHANGED <<products, nextId, okDeletes, dbVars, fnVars>>

\* Mutant of CreatePriceRejected: the handler does not look at the rounded price.
CreatePriceUnchecked(v) == FALSE

\* create_product's own checks on the validated model, before the INSERT.
CreatePriceRejected(v) == v.price[1] <= 0
CreateQuantityRejected(v) == v.quantity[1] < 0

\* What POST /products answers before any storage call: 422 from
\* ProductCreate, 400 from the handler's checks, 200 for going on to the INSERT.
CreateStatus(b) ==
    IF ~ValidCreate(b) THEN 422
    ELSE IF CreatePriceRejected(Validated(b)) THEN 400
    ELSE IF CreateQuantityRejected(Validated(b)) THEN 400
    ELSE 200

\* POST /products refused before any storage call.
CreateRefuse(w, b) ==
    /\ Accept(w)
    /\ CreateStatus(b) # 200
    /\ Finish(w, Request(w, "create", 0, b), Resp(CreateStatus(b)), NoCalls)
    /\ UNCHANGED <<products, nextId, okDeletes, dbVars, fnVars>>

\* POST /products up to and including execute_insert.
CreateInsert(w, b, out, at) ==
    /\ Accept(w)
    /\ nextId <= MaxId
    /\ CreateStatus(b) = 200
    /\ LET rq == Request(w, "create", 0, b)
       IN  IF NotRun(out)
           THEN /\ Finish(w, rq, Failure("create_product", out), Write(NoCalls, out))
                /\ UNCHANGED <<products, nextId>>
           ELSE /\ products' = InsertRow(products, nextId, Validated(b), at)
                /\ nextId' = nextId + 1
                /\ IF out = "late"
                   THEN Finish(w, rq, Failure("create_product", out),
                               Write(NoCalls, out))
                   ELSE Continue(w, [rq EXCEPT !.id = nextId], "create_fetch",
                                 [NoLoc EXCEPT !.id = nextId, !.calls = Write(NoCalls, out)])
    /\ UNCHANGED <<okDeletes, dbVars, fnVars>>

\* POST /products: the created product is fetched again by its id.
CreateFetch(w, out) ==
    /\ pc[w] = "create_fetch"
    /\ Finish(w, req[w], GetProductResp(products, loc[w].id, out),
              Read(loc[w].calls, out))
    /\ UNCHANGED <<products, nextId, served, okDeletes, dbVars, fnVars>>

\* PUT /products/{id} refused by ProductUpdate: 422 before the handler runs.
UpdateRefuse(w, id, b) ==
    /\ Accept(w)
    /\ ~ValidUpdate(b)
    /\ Finish(w, Request(w, "update", id, b), Resp(422), NoCalls)
    /\ UNCHANGED <<products, nextId, okDeletes, dbVars, fnVars>>

\* update_product's checks while it builds update_fields.
UpdateQuantityRejected(v) ==
    IF IsNone(v.quantity) THEN FALSE ELSE v.quantity[1] < 0

UpdatePriceRejected(v) ==
    IF IsNone(v.price) THEN FALSE ELSE v.price[1] <= 0

\* Mutant of UpdateFieldsStatus: an empty update_fields is not refused.
UpdateFieldsStatusAllowEmpty(v) ==
    IF UpdateQuantityRejected(v) THEN 400
    ELSE IF UpdatePriceRejected(v) THEN 400
    ELSE 200

\* The status update_product answers while it builds update_fields, 200
\* meaning it goes on to the UPDATE statement.
UpdateFieldsStatus(v) ==
    IF UpdateQuantityRejected(v) THEN 400
    ELSE IF UpdatePriceRejected(v) THEN 400
    ELSE IF NoFields(v) THEN 400
    ELSE 200

\* Mutant of UpdateCheckStatus: the fields are checked before the existence
\* check's answer is looked at.
UpdateCheckStatusFieldsFirst(found, v) ==
    IF UpdateFieldsStatus(v) # 200 THEN UpdateFieldsStatus(v) ELSE found.status

\* update_product before its UPDATE: the existence check's answer comes first
\* (get_product raises 404 or 500), then the checks on the fields.
UpdateCheckStatus(found, v) ==
    IF found.status # 200 THEN found.status ELSE UpdateFieldsStatus(v)

\* PUT /products/{id}: the existence check (get_product), then update_fields.
UpdateCheck(w, id, b, out) ==
    /\ Accept(w)
    /\ ValidUpdate(b)
    /\ LET rq == Request(w, "update", id, b)
           found == GetProductResp(products, id, out)
           v == Validated(b)
       IN  IF UpdateCheckStatus(found, v) # 200
           THEN Finish(w, rq,
                       IF UpdateCheckStatus(found, v) = found.status THEN found
                       ELSE Resp(UpdateCheckStatus(found, v)),
                       Read(NoCalls, out))
           ELSE Continue(w, rq, "update_exec",
                         [NoLoc EXCEPT !.id = id, !.calls = Read(NoCalls, out)])
    /\ UNCHANGED <<products, nextId, okDeletes, dbVars, fnVars>>

\* PUT /products/{id}: execute_update of the UPDATE; its rowcount is not read.
UpdateExec(w, out) ==
    /\ pc[w] = "update_exec"
    /\ products' = IF NotRun(out) THEN products
                   ELSE UpdateRow(products, loc[w].id, Validated(req[w].body))
    /\ LET calls == Matching(Write(loc[w].calls, out), out,
                              RowsAffected(products, loc[w].id))
       IN  IF out = "ok"
           THEN Continue(w, req[w], "update_fetch", [loc[w] EXCEPT !.calls = calls])
           ELSE Finish(w, req[w], Failure("update_product", out), calls)
    /\ UNCHANGED <<nextId, served, okDeletes, dbVars, fnVars>>

\* PUT /products/{id}: the updated product is fetched again.
UpdateFetch(w, out) ==
    /\ pc[w] = "update_fetch"
    /\ Finish(w, req[w], GetProductResp(products, loc[w].id, out),
              Read(loc[w].calls, out))
    /\ UNCHANGED <<products, nextId, served, okDeletes, dbVars, fnVars>>

\* DELETE /products/{id}: the existence check, which keeps the product's name.
DeleteCheck(w, id, out) ==
    /\ Accept(w)
    /\ LET rq == Request(w, "delete", id, NoBody)
           found == GetProductResp(products, id, out)
       IN  IF found.status # 200
           THEN Finish(w, rq, found, Read(NoCalls, out))
           ELSE Continue(w, rq, "delete_exec",
                         [NoLoc EXCEPT !.id = id,
                                       !.name = Some(found.data[1].name),
                                       !.calls = Read(NoCalls, out)])
    /\ UNCHANGED <<products, nextId, okDeletes, dbVars, fnVars>>

\* Mutant of DeleteResp: rows_affected is not looked at.
DeleteRespAlwaysOk(rows, name) == RespDeleted(name)

\* The answer of delete_product once the DELETE has returned rows_affected.
DeleteResp(rows, name) ==
    IF rows = 0 THEN Resp(404) ELSE RespDeleted(name)

\* DELETE /products/{id}: execute_update of the DELETE.
DeleteExec(w, out) ==
    /\ pc[w] = "delete_exec"
    /\ products' = IF NotRun(out) THEN products
                   ELSE DeleteRow(products, loc[w].id)
    /\ LET r == IF out = "ok"
                THEN DeleteResp(RowsAffected(products, loc[w].id), loc[w].name[1])
                ELSE Failure("delete_product", out)
       IN  /\ Finish(w, req[w], r,
                     Matching(Write(loc[w].calls, out), out,
                              RowsAffected(products, loc[w].id)))
           /\ okDeletes' = IF r.status = 200
                           THEN [okDeletes EXCEPT ![loc[w].id] = @ + 1]
                           ELSE okDeletes
    /\ UNCHANGED <<nextId, served, dbVars, fnVars>>

\* The query parameters GET /products is called with.
ListQueries ==
    {NoQuery,
     [NoQuery EXCEPT !.category = BodyA.category, !.low_stock = Some(TRUE)],
     [NoQuery EXCEPT !.skip = 0 - 1]}

\* GET /products refused by the Query constraints: 422 before the handler runs.
GetProductsRefuse(w, q) ==
    /\ Accept(w)
    /\ ~ValidPage(q)
    /\ Finish(w, [Request(w, "list", 0, NoBody) EXCEPT !.query = q], Resp(422), NoCalls)
    /\ UNCHANGED <<products, nextId, okDeletes, dbVars, fnVars>>

\* What get_products answers; ord is the order the SELECT returned the
\* matching rows in.
GetProductsResp(tbl, q, ord, out) ==
    LET page == RowsOf(tbl, Page(ord, OffsetOf(ListQuery(q).params),
                                 LimitOf(ListQuery(q).params)))
    IN  IF out # "ok" THEN Failure("get_products", out)
        ELSE IF \E i \in 1..Len(page) : ~RowValid(page[i])
        THEN Failure("get_products", "validation")
        ELSE [Resp(200) EXCEPT !.data = Some(page)]

\* GET /products
GetProducts(w, q, ord, out) ==
    /\ Accept(w)
    /\ ValidPage(q)
    /\ ord \in NewestFirst(products, q)
    /\ Finish(w, [Request(w, "list", 0, NoBody) EXCEPT !.query = q],
              GetProductsResp(products, q, ord, out), Read(NoCalls, out))
    /\ UNCHANGED <<products, nextId, okDeletes, dbVars, fnVars>>

\* GET /categories
GetCategories(w, out) ==
    /\ Accept(w)
    /\ Finish(w, Request(w, "categories", 0, NoBody),
              IF out # "ok" THEN Failure("get_categories", out)
              ELSE [Resp(200) EXCEPT !.data = Some(Categories(products))],
              Read(NoCalls, out))
    /\ UNCHANGED <<products, nextId, okDeletes, dbVars, fnVars>>

\* Mutant of HealthCheck: a failed probe is answered like any other storage
\* failure.
HealthCheckRaises(w, out) ==
    /\ Accept(w)
    /\ Finish(w, Request(w, "health", 0, NoBody),
              IF out = "ok"
              THEN [Resp(200) EXCEPT
                      !.data = Some([status |-> "healthy", database |-> "connected"])]
              ELSE Failure("health_check", out),
              Read(NoCalls, out))
    /\ UNCHANGED <<products, nextId, okDeletes, dbVars, fnVars>>

\* GET /health: the probe SELECT 1.
HealthCheck(w, out) ==
    /\ Accept(w)
    /\ Finish(w, Request(w, "health", 0, NoBody),
              IF out = "ok"
              THEN [Resp(200) EXCEPT
                      !.data = Some([status |-> "healthy", database |-> "connected"])]
              ELSE [Resp(503) EXCEPT
                      !.data = Some([status |-> "unhealthy", database |-> "disconnected"]),
                      !.detail = Some([by |-> "health_check", cause |-> out])],
              Read(NoCalls, out))
    /\ UNCHANGED <<products, nextId, okDeletes, dbVars, fnVars>>

\* GET /dashboard/stats: the first of its six queries, COUNT(*).
DashTotal(w, out) ==
    /\ Accept(w)
    /\ LET rq == Request(w, "dashboard", 0, NoBody)
       IN  IF out # "ok"
           THEN Finish(w, rq, Failure("get_dashboard_stats", out), Read(NoCalls, out))
           ELSE Continue(w, rq, "dash_categories",
                         [NoLoc EXCEPT !.calls = Read(NoCalls, out),
                                       !.stats.total = Cardinality(DOMAIN products)])
    /\ UNCHANGED <<products, nextId, okDeletes, dbVars, fnVars>>

\* One of the later queries of get_dashboard_stats: it raises, or its value is
\* kept in stats and the handler goes on.
DashQuery(w, at, then, out, stats) ==
    /\ pc[w] = at
    /\ IF out # "ok"
       THEN Finish(w, req[w], Failure("get_dashboard_stats", out),
                   Read(loc[w].calls, out))
       ELSE Continue(w, req[w], then,
                     [loc[w] EXCEPT !.calls = Read(loc[w].calls, out), !.stats = stats])
    /\ UNCHANGED <<products, nextId, served, okDeletes, dbVars, fnVars>>

DashCategories(w, out) ==
    DashQuery(w, "dash_categories", "dash_low", out,
              [loc[w].stats EXCEPT !.categories = Cardinality(Categories(products))])

DashLowStock(w, out) ==
    DashQuery(w, "dash_low", "dash_value", out,
              [loc[w].stats EXCEPT !.low = LowStockCount(products)])

DashValue(w, out) ==
    DashQuery(w, "dash_value", "dash_recent", out,
              [loc[w].stats EXCEPT !.value = InventoryValue(products)])

DashRecent(w, out, cut) ==
    DashQuery(w, "dash_recent", "dash_top", out,
              [loc[w].stats EXCEPT !.recent = RecentCount(products, cut)])

\* The DashboardStats get_dashboard_stats returns.
StatsResp(stats, top) ==
    [Resp(200) EXCEPT
       !.data = Some([total_products |-> stats.total,
                      total_categories |-> stats.categories,
                      low_stock_count |-> stats.low,
                      total_inventory_value |-> stats.value,
                      recent_products |-> stats.recent,
                      top_categories |-> top])]

\* GET /dashboard/stats: the last query, the top categories, and the answer.
DashTop(w, out) ==
    /\ pc[w] = "dash_top"
    /\ Finish(w, req[w],
              IF out # "ok" THEN Failure("get_dashboard_stats", out)
              ELSE StatsResp(loc[w].stats, CategoryCounts(products)),
              Read(loc[w].calls, out))
    /\ UNCHANGED <<products, nextId, served, okDeletes, dbVars, fnVars>>

\* What a report endpoint answers; ord is the order the SELECT returned the
\* rows in and doc the document generated from them.
ReportResp(by, tbl, ord, doc, out) ==
    IF out # "ok" THEN Failure(by, out)
    ELSE IF \E i \in 1..Len(ord) : ~RowValid(tbl[ord[i]])
    THEN Failure(by, "validation")
    ELSE [Resp(200) EXCEPT !.data = Some(doc)]

\* GET /documents/products/full
DownloadFull(w, ord, now, out) ==
    /\ Accept(w)
    /\ ord \in ByName(products)
    /\ Finish(w, Request(w, "full_report", 0, NoBody),
              ReportResp("download_full_product_list", products, ord,
                         GenerateFullProductList(RowsOf(products, ord), now), out),
              Read(NoCalls, out))
    /\ UNCHANGED <<products, nextId, okDeletes, dbVars, fnVars>>

\* GET /documents/products/low-stock
DownloadLowStock(w, ord, now, out) ==
    /\ Accept(w)
    /\ ord \in ByQuantityThenName(products)
    /\ Finish(w, Request(w, "low_stock_report", 0, NoBody),
              ReportResp("download_low_stock_report", products, ord,
                         GenerateLowStockReport(RowsOf(products, ord), now), out),
              Read(NoCalls, out))
    /\ UNCHANGED <<products, nextId, okDeletes, dbVars, fnVars>>

\* The read-only handlers of worker w, called with the queries of Q.
Reads(w, Q) ==
    \/ \E q \in Q : GetProductsRefuse(w, q)
    \/ \E q \in {x \in Q : ValidPage(x)} :
           \E ord \in NewestFirst(products, q), out \in ReadOutcomes :
               GetProducts(w, q, ord, out)
    \/ \E out \in ReadOutcomes : GetCategories(w, out)
    \/ \E out \in ReadOutcomes : HealthCheck(w, out)
    \/ \E out \in ReadOutcomes : DashTotal(w, out)
    \/ \E out \in ReadOutcomes : DashCategories(w, out)
    \/ \E out \in ReadOutcomes : DashLowStock(w, out)
    \/ \E out \in ReadOutcomes : DashValue(w, out)
    \/ \E out \in ReadOutcomes, cut \in 1..(Latest(products) + 1) : DashRecent(w, out, cut)
    \/ \E out \in ReadOutcomes : DashTop(w, out)
    \/ \E ord \in ByName(products), out \in ReadOutcomes, now \in WallClock :
           DownloadFull(w, ord, now, out)
    \/ \E ord \in ByQuantityThenName(products), out \in ReadOutcomes, now \in WallClock :
           DownloadLowStock(w, ord, now, out)

Next ==
    \E w \in Workers :
        \/ \E id \in Ids, out \in ReadOutcomes : GetProduct(w, id, out)
        \/ \E b \in CreateBodies : CreateRefuse(w, b)
        \/ \E b \in CreateBodies, out \in WriteOutcomes, at \in Stamps(products) :
               CreateInsert(w, b, out, at)
        \/ \E out \in ReadOutcomes : CreateFetch(w, out)
        \/ \E id \in Ids, b \in UpdateBodies : UpdateRefuse(w, id, b)
        \/ \E id \in Ids, b \in UpdateBodies, out \in ReadOutcomes :
               UpdateCheck(w, id, b, out)
        \/ \E out \in WriteOutcomes : UpdateExec(w, out)
        \/ \E out \in ReadOutcomes : UpdateFetch(w, out)
        \/ \E id \in Ids, out \in ReadOutcomes : DeleteCheck(w, id, out)
        \/ \E out \in WriteOutcomes : DeleteExec(w, out)
        \/ Reads(w, ListQueries)

Spec == Init /\ [][Next]_vars

\* --------------------------------------------------------- DatabaseManager
\* One caller at a time uses the manager (the handlers call it from the event
\* loop's thread).  A statement is an INSERT, an UPDATE, a DELETE or a SELECT
\* of one row of products.
StInsert(v) == [kind |-> "insert", id |-> 0, body |-> v]
StUpdate(id, v) == [kind |-> "update", id |-> id, body |-> v]
StDelete(id) == [kind |-> "delete", id |-> id, body |-> NoBody]
StSelect(id) == [kind |-> "select", id |-> id, body |-> NoBody]

\* The table after cursor.execute of statement st; nid is the next AUTO_INCREMENT id.
ApplyStmt(tbl, nid, st) ==
    IF st.kind = "insert" THEN InsertRow(tbl, nid, st.body, Latest(tbl) + 1)
    ELSE IF st.kind = "update" THEN UpdateRow(tbl, st.id, st.body)
    ELSE IF st.kind = "delete" THEN DeleteRow(tbl, st.id)
    ELSE tbl

\* The AUTO_INCREMENT counter after statement st; a rollback does not take it back.
NextIdAfter(nid, st) == IF st.kind = "insert" THEN nid + 1 ELSE nid

\* lastrowid, rowcount or the number of fetched rows.
StmtValue(tbl, nid, st) ==
    IF st.kind = "insert" THEN nid ELSE RowsAffected(tbl, st.id)

\* What one statement can do on a checked-out connection: succeed; raise Error
\* on a live connection; raise because the connection was lost before it ran;
\* or (a write under autocommit) run, with the connection lost before commit().
StmtOutcomes == {"ok", "error", "lost", "late"}

\* get_connection's finally: the connection goes back to the pool when
\* connection.is_connected() holds; close() is not called otherwise.
Release(p, connected) == IF connected THEN p + 1 ELSE p

\* Mutant of AfterRollback: the statements that ran stay applied.
AfterRollbackKeepsWork(before, work) == work

\* connection.rollback() discards what the statements of the transaction did.
AfterRollback(before, work) == before

WriteStmts ==
    {StInsert(Validated(BodyB)),
     StUpdate(1, Validated([NoBody EXCEPT !.quantity = BodyB.quantity])),
     StDelete(1)}

RECURSIVE SeqsUpTo(_, _)
SeqsUpTo(S, n) ==
    IF n = 0 THEN {<<>>}
    ELSE LET shorter == SeqsUpTo(S, n - 1)
         IN  shorter \cup {Append(q, x) : q \in shorter, x \in S}

Transactions == SeqsUpTo(WriteStmts, MaxTxnLen)

\* The AUTO_INCREMENT ids a sequence of statements needs.
RECURSIVE Inserts(_)
Inserts(q) ==
    IF q = <<>> THEN 0
    ELSE (IF Head(q).kind = "insert" THEN 1 ELSE 0) + Inserts(Tail(q))

DbResult(op, ok, value) ==
    [kind |-> op.kind, ok |-> ok, value |-> value, stmts |-> op.stmts,
     before |-> op.before, nid |-> op.nid, done |-> op.next - 1]

\* The caller enters execute_query, execute_insert, execute_update or
\* execute_transaction: get_connection takes a connection from the pool, or
\* raises PoolError when the pool is empty.
DbCall(kind, stmts) ==
    /\ dbop.kind = "idle"
    /\ nextId + Inserts(stmts) <= MaxId + 1
    /\ LET op == [kind |-> kind, stmts |-> stmts, next |-> 1, before |-> products,
                  nid |-> nextId, work |-> products]
       IN  IF pool = 0
           THEN /\ dbres' = DbResult(op, FALSE, 0)
                /\ UNCHANGED <<pool, dbop>>
           ELSE /\ pool' = pool - 1
                /\ dbop' = op
                /\ UNCHANGED dbres
    /\ UNCHANGED <<products, nextId, apiVars, fnVars>>

\* execute_query, execute_insert, execute_update: the statement, commit(), and
\* the release of the connection.  autocommit is on: the statement is durable
\* once it has run.
DbRun(out) ==
    /\ dbop.kind \in {"query", "insert", "update"}
    /\ out = "late" => dbop.kind # "query"
    /\ LET st == dbop.stmts[1]
           ran == out \in {"ok", "late"}
       IN  /\ products' = IF ran THEN ApplyStmt(products, nextId, st) ELSE products
           /\ nextId' = IF ran THEN NextIdAfter(nextId, st) ELSE nextId
           /\ dbres' = DbResult(dbop, out = "ok",
                                IF out = "ok" THEN StmtValue(products, nextId, st) ELSE 0)
    /\ pool' = Release(pool, out \in {"ok", "error"})
    /\ dbop' = DbIdle
    /\ UNCHANGED <<apiVars, fnVars>>

\* execute_transaction: one statement of the loop, autocommit off.  On Error
\* the handler rolls back and the connection is released.
DbTxnStatement(out) ==
    /\ dbop.kind = "transaction"
    /\ dbop.next <= Len(dbop.stmts)
    /\ out \in {"ok", "error", "lost"}
    /\ LET st == dbop.stmts[dbop.next]
       IN  IF out = "ok"
           THEN /\ dbop' = [dbop EXCEPT !.work = ApplyStmt(dbop.work, nextId, st),
                                        !.next = @ + 1]
                /\ nextId' = NextIdAfter(nextId, st)
                /\ UNCHANGED <<products, pool, dbres>>
           ELSE /\ products' = AfterRollback(products, dbop.work)
                /\ pool' = Release(pool, out = "error")
                /\ dbres' = DbResult(dbop, FALSE, 0)
                /\ dbop' = DbIdle
                /\ UNCHANGED nextId
    /\ UNCHANGED <<apiVars, fnVars>>

\* execute_transaction: connection.commit() after the last statement.
DbTxnCommit(out) ==
    /\ dbop.kind = "transaction"
    /\ dbop.next > Len(dbop.stmts)
    /\ out \in {"ok", "error", "lost"}
    /\ products' = IF out = "ok" THEN dbop.work
                   ELSE AfterRollback(products, dbop.work)
    /\ pool' = Release(pool, out \in {"ok", "error"})
    /\ dbres' = DbResult(dbop, out = "ok", IF out = "ok" THEN 1 ELSE 0)
    /\ dbop' = DbIdle
    /\ UNCHANGED <<nextId, apiVars, fnVars>>

NextDb ==
    \/ \E id \in Ids : DbCall("query", <<StSelect(id)>>)
    \/ DbCall("insert", <<StInsert(Validated(BodyB))>>)
    \/ \E st \in WriteStmts \ {StInsert(Validated(BodyB))} : DbCall("update", <<st>>)
    \/ \E q \in Transactions : DbCall("transaction", q)
    \/ \E out \in StmtOutcomes : DbRun(out)
    \/ \E out \in StmtOutcomes : DbTxnStatement(out)
    \/ \E out \in StmtOutcomes : DbTxnCommit(out)

SpecDb == Init /\ [][NextDb]_vars

\* --------------------------------------------- the read endpoints on a store
\* The read-only endpoints on stores of several products, with delete requests
\* as the writes that can come between their queries.
StoreRow(id, name, category, quantity, price, at) ==
    [id |-> id, name |-> name, category |-> category, quantity |-> quantity,
     price |-> price, description |-> None, created_at |-> at]

\* Three products of category c with quantities 2, 15 and 8, the first two
\* inserted in the same second.
ToolsStore ==
    <<StoreRow(1, <<"a">>, <<"c">>, 2, 500, 1),
      StoreRow(2, <<"b">>, <<"c">>, 15, 500, 1),
      StoreRow(3, <<"a">>, <<"c">>, 8, 200, 2)>>

\* The same with a product of another category that is low on stock.
MixedStore ==
    ToolsStore \o <<StoreRow(4, <<"x">>, <<"d">>, 2, 200, 2)>>

\* A product of quantity 3 and price 5.00 and one of quantity 50 and price 2.00.
WidgetStore ==
    <<StoreRow(1, <<"a">>, <<"c">>, 3, 500, 1),
      StoreRow(2, <<"b">>, <<"d">>, 50, 200, 2)>>

\* No product of quantity below 10.
StockedStore ==
    <<StoreRow(1, <<"a">>, <<"c">>, 10, 500, 1),
      StoreRow(2, <<"a">>, <<"c">>, 10, 200, 1)>>

Stores == {EmptyTable, ToolsStore, MixedStore, WidgetStore, StockedStore}

ReadQueries ==
    {NoQuery,
     [NoQuery EXCEPT !.category = Some(<<"c">>), !.low_stock = Some(TRUE)],
     [NoQuery EXCEPT !.category = Some(<<"c">>), !.low_stock = Some(TRUE),
                     !.skip = 1, !.limit = 1],
     [NoQuery EXCEPT !.category = Some(<<"d">>), !.low_stock = Some(FALSE)],
     [NoQuery EXCEPT !.search = Some(<<"b">>), !.limit = MaxLimit],
     [NoQuery EXCEPT !.limit = MaxLimit + 1],
     [NoQuery EXCEPT !.limit = 0],
     [NoQuery EXCEPT !.skip = 0 - 1]}

InitRead ==
    /\ products \in Stores
    /\ nextId = Cardinality(DOMAIN products) + 1
    /\ ApiInit
    /\ DbInit
    /\ FnInit

NextRead ==
    \E w \in Workers :
        \/ Reads(w, ReadQueries)
        \/ \E id \in Ids, out \in ReadOutcomes : DeleteCheck(w, id, out)
        \/ \E out \in WriteOutcomes : DeleteExec(w, out)

SpecRead == InitRead /\ [][NextRead]_vars

\* ------------------------------------------------------ the report generator
\* The two generators called on lists of products of any quantities, as a
\* caller other than the report endpoints may pass them.
MaxProducts == 3

LongName == [i \in 1..(LowNameWidth + 1) |-> "a"]

ReportProducts ==
    UNION {[1..n -> [name : {<<"a">>, LongName}, category : {<<"c">>},
                     quantity : {3, 4, 5, 9, 10}, price : {400}]] :
           n \in 0..MaxProducts}

\* The Product objects of a list, with ids by position.
AsProducts(ps) ==
    [i \in 1..Len(ps) |->
        [id |-> i, name |-> ps[i].name, category |-> ps[i].category,
         quantity |-> ps[i].quantity, price |-> ps[i].price]]

InitPdf ==
    /\ products = EmptyTable
    /\ nextId = 1
    /\ ApiInit
    /\ DbInit
    /\ \E ps \in ReportProducts : input = [NoInput EXCEPT !.products = AsProducts(ps)]
    /\ output = NoOutput

CallGenerateLowStockReport ==
    /\ \E now \in WallClock :
           output' = [kind |-> "low_stock",
                      first |-> GenerateLowStockReport(input.products, now),
                      second |-> <<>>]
    /\ UNCHANGED <<products, nextId, apiVars, dbVars, input>>

CallGenerateFullProductList ==
    /\ \E now \in WallClock :
           output' = [kind |-> "full",
                      first |-> GenerateFullProductList(input.products, now),
                      second |-> <<>>]
    /\ UNCHANGED <<products, nextId, apiVars, dbVars, input>>

NextPdf == CallGenerateLowStockReport \/ CallGenerateFullProductList

SpecPdf == InitPdf /\ [][NextPdf]_vars

\* ------------------------------------------------------- the query builders
\* build_search_query and the statement of get_products, called on their own
\* with every combination of filters.
FilterSets ==
    [category : {None, Some(<<>>), Some(<<"c">>), Some(<<"d">>)},
     min_price : {None, Some(0), Some(500)},
     max_price : {None, Some(2000)},
     min_quantity : {None, Some(0)},
     max_quantity : {None, Some(9)},
     search : {None, Some(<<>>), Some(<<"a">>)},
     low_stock : {None, Some(FALSE), Some(TRUE)}]

\* (skip, limit) of the calls.
Pages == {[skip |-> 0, limit |-> 100], [skip |-> 10, limit |-> 5]}

\* The filters of a second request: the same filters given, each with another
\* value where it has one.
OtherValues(f) ==
    [category |-> IF f.category = Some(<<"c">>) THEN Some(<<"d">>)
                  ELSE IF f.category = Some(<<"d">>) THEN Some(<<"c">>)
                  ELSE f.category,
     min_price |-> IF f.min_price = Some(0) THEN Some(500)
                   ELSE IF f.min_price = Some(500) THEN Some(0) ELSE None,
     max_price |-> IF IsNone(f.max_price) THEN None ELSE Some(1000),
     min_quantity |-> IF IsNone(f.min_quantity) THEN None ELSE Some(3),
     max_quantity |-> IF IsNone(f.max_quantity) THEN None ELSE Some(7),
     search |-> IF f.search = Some(<<"a">>) THEN Some(<<"b">>) ELSE f.search,
     low_stock |-> f.low_stock]

\* The query parameters of get_products that carry the filters f.
QueryOf(f, skip, limit) ==
    [skip |-> skip, limit |-> limit, category |-> f.category,
     search |-> f.search, low_stock |-> f.low_stock]

BaseQuery == <<"SELECT * FROM products">>

InitQuery ==
    /\ products = EmptyTable
    /\ nextId = 1
    /\ ApiInit
    /\ DbInit
    /\ \E f \in FilterSets, pg \in Pages :
           input = [NoInput EXCEPT !.filters = f, !.skip = pg.skip, !.limit = pg.limit]
    /\ output = NoOutput

\* build_search_query is called with the filters, and with the second
\* request's filters.
CallBuildSearchQuery ==
    /\ output' = [kind |-> "build",
                  first |-> BuildSearchQuery(BaseQuery, input.filters),
                  second |-> BuildSearchQuery(BaseQuery, OtherValues(input.filters))]
    /\ UNCHANGED <<products, nextId, apiVars, dbVars, input>>

\* get_products builds its statement from the filters, and from the second
\* request's filters.
CallListQuery ==
    /\ output' = [kind |-> "list",
                  first |-> ListQuery(QueryOf(input.filters, input.skip, input.limit)),
                  second |-> ListQuery(QueryOf(OtherValues(input.filters),
                                               input.skip, input.limit))]
    /\ UNCHANGED <<products, nextId, apiVars, dbVars, input>>

NextQuery == CallBuildSearchQuery \/ CallListQuery

SpecQuery == InitQuery /\ [][NextQuery]_vars

\* ------------------------------------------------------------------- claims
\* A request is answered in this step: last' is that request and its response.
Completes ==
    \/ \E w \in Workers : pc[w] # "idle" /\ pc'[w] = "idle"
    \/ served' # served /\ pc' = pc

NonBlank(s) == \E i \in 1..Len(s) : s[i] # " "

\* t is s without its leading and trailing blanks.
IsTrimOf(t, s) ==
    /\ \E i \in 1..(Len(s) + 1) :
           /\ i + Len(t) - 1 <= Len(s)
           /\ t = SubSeq(s, i, i + Len(t) - 1)
           /\ \A k \in 1..Len(s) : (k < i \/ k >= i + Len(t)) => s[k] = " "
    /\ t # <<>> => (t[1] # " " /\ t[Len(t)] # " ")

\* p cents is a nearest two-decimal value of m thousandths.
NearestCent(p, m) == 10 * p - m \in (0 - 5)..5

Present(o) == o # <<>>
Value(o, default) == IF o = <<>> THEN default ELSE o[1]

\* C1: in every reachable state every stored product has price > 0,
\* quantity >= 0 and a name and a category that are not empty after trimming,
\* whatever create, update and delete requests were accepted or refused; a
\* submitted price that rounds to 0.00 is never stored.
C1_StoredProductsValid ==
    \A id \in DOMAIN products :
        /\ products[id].price > 0
        /\ products[id].quantity >= 0
        /\ NonBlank(products[id].name)
        /\ NonBlank(products[id].category)

\* A create with a price that rounds to 0.00 was refused while products are stored.
C1_Witness ==
    /\ DOMAIN products # {}
    /\ last.req.op = "create"
    /\ last.req.body.price = TinyPrice
    /\ last.resp.status = 400

\* The inputs C2 is about: price <= 0, quantity < 0, or a name or category
\* that is empty once trimmed.
BadCreateInput(b) ==
    \/ Present(b.price) /\ Value(b.price, 1) <= 0
    \/ Present(b.quantity) /\ Value(b.quantity, 0) < 0
    \/ Present(b.name) /\ ~NonBlank(Value(b.name, <<>>))
    \/ Present(b.category) /\ ~NonBlank(Value(b.category, <<>>))

\* C2: every create request with price <= 0, quantity < 0 or an empty name or
\* category is answered with the validation error 422, issues no INSERT and
\* leaves the products table unchanged.
C2_BadCreateRefused ==
    [][(Completes /\ last'.req.op = "create" /\ BadCreateInput(last'.req.body))
       => (/\ last'.resp.status = 422
           /\ last'.calls.writes = 0
           /\ products' = products)]_vars

\* A create with such an input has been answered 422.
C2_Witness ==
    /\ last.req.op = "create"
    /\ BadCreateInput(last.req.body)
    /\ last.resp.status = 422
    /\ last.calls.writes = 0

\* C3: when a create succeeds and no request was accepted after it, the record
\* it returns (get_product by the new id) has the input's name and category
\* trimmed, its quantity and description as given, and its price at the
\* nearest cent; a price of 19.999 comes back as 20.00.
C3_CreateRoundTrip ==
    (last.req.op = "create" /\ last.resp.status = 200 /\ last.req.seq = served)
    => LET b == last.req.body
           r == last.resp.data[1]
       IN  /\ r.id = last.req.id
           /\ IsTrimOf(r.name, b.name[1])
           /\ IsTrimOf(r.category, b.category[1])
           /\ r.quantity = b.quantity[1]
           /\ r.description = b.description
           /\ NearestCent(r.price, b.price[1])
           /\ b.price[1] = 19999 => r.price = 2000

\* A create of price 19.999 with blanks around its name has returned its record.
C3_Witness ==
    /\ last.req.op = "create"
    /\ last.resp.status = 200
    /\ last.req.seq = served
    /\ last.req.body = BodyA
    /\ last.resp.data[1].price = 2000
    /\ last.resp.data[1].name = <<"a">>

\* C4 as stated: every update request whose five fields are all absent or null
\* is answered with a client error, issues no UPDATE and leaves the table
\* unchanged.
C4_Original ==
    [][(Completes /\ last'.req.op = "update" /\ NoFields(last'.req.body))
       => (/\ last'.resp.status \in {400, 404, 422}
           /\ last'.calls.writes = 0
           /\ products' = products)]_vars

\* C4, amended: every update request whose five fields are all absent or null
\* is refused, issues no UPDATE and leaves the table unchanged; the answer is
\* 400 when the id is stored, 404 when it is not, and 500 when the existence
\* check's storage read fails.
C4_EmptyUpdateRefused ==
    [][(Completes /\ last'.req.op = "update" /\ NoFields(last'.req.body))
       => (/\ \/ last'.resp.status = 400 /\ last'.req.id \in DOMAIN products
              \/ last'.resp.status = 404 /\ last'.req.id \notin DOMAIN products
              \/ last'.resp.status = 500
           /\ last'.calls.writes = 0
           /\ products' = products)]_vars

\* An update without fields of a stored product has been answered 400.
C4_Witness ==
    /\ last.req.op = "update"
    /\ NoFields(last.req.body)
    /\ last.req.existed
    /\ last.resp.status = 400
    /\ last.calls.writes = 0

\* C5 as stated: every update request for an id that is not stored is answered
\* 404 whatever its body, issues no UPDATE and leaves the table unchanged.
C5_Original ==
    [][(Completes /\ last'.req.op = "update" /\ ~last'.req.existed)
       => (/\ last'.resp.status = 404
           /\ last'.calls.writes = 0
           /\ products' = products)]_vars

\* C5, amended: an update request for an id that is not stored issues no
\* UPDATE and leaves the table unchanged; with a body ProductUpdate accepts
\* (an empty one and a price rounding to 0.00 included) it is answered 404, or
\* 500 when the existence check's storage read fails; with a body
\* ProductUpdate refuses it is answered 422 before the existence check.
C5_MissingIdUpdate ==
    [][(Completes /\ last'.req.op = "update" /\ ~last'.req.existed)
       => (/\ IF ValidUpdate(last'.req.body)
              THEN last'.resp.status \in {404, 500} /\ last'.calls.reads = 1
              ELSE last'.resp.status = 422 /\ last'.calls.reads = 0
           /\ last'.calls.writes = 0
           /\ products' = products)]_vars

\* An update of a missing id with a price that rounds to 0.00 was answered 404.
C5_Witness ==
    /\ last.req.op = "update"
    /\ ~last.req.existed
    /\ last.req.body.price = TinyPrice
    /\ last.resp.status = 404

\* The last request was served with no other request in progress or accepted
\* while it ran.
RanAlone == last.req.solo /\ last.req.seq = served

\* C6 as stated: of the deletes of one id served in sequence, the first delete
\* of a stored id succeeds, every delete after a success is answered 404, and
\* no id is deleted with success twice.
C6_Original ==
    /\ \A id \in Ids : okDeletes[id] <= 1
    /\ (last.req.op = "delete" /\ RanAlone)
       => IF last.req.existed THEN last.resp.status = 200
          ELSE okDeletes[last.req.id] >= 1 => last.resp.status = 404

\* C6, amended: of the deletes of one id served in sequence, the first delete
\* of a stored id succeeds and every delete after a success is answered 404,
\* unless a storage call of that delete fails and it is answered 500; no id is
\* deleted with success twice, whether or not the deletes overlap.
C6_DeleteTwice ==
    /\ \A id \in Ids : okDeletes[id] <= 1
    /\ (last.req.op = "delete" /\ RanAlone)
       => IF last.req.existed THEN last.resp.status \in {200, 500}
          ELSE okDeletes[last.req.id] >= 1 => last.resp.status \in {404, 500}

\* A delete of an id that was deleted with success before was answered 404.
C6_Witness ==
    /\ last.req.op = "delete"
    /\ RanAlone
    /\ ~last.req.existed
    /\ okDeletes[last.req.id] = 1
    /\ last.resp.status = 404

\* The row after an update with body b: present fields hold the converted
\* input, absent fields and the id are those of the row before.
UpdatedAs(after, before, b) ==
    /\ after.id = before.id
    /\ IF Present(b.name) THEN IsTrimOf(after.name, b.name[1])
       ELSE after.name = before.name
    /\ IF Present(b.category) THEN IsTrimOf(after.category, b.category[1])
       ELSE after.category = before.category
    /\ IF Present(b.quantity) THEN after.quantity = b.quantity[1]
       ELSE after.quantity = before.quantity
    /\ IF Present(b.price) THEN NearestCent(after.price, b.price[1])
       ELSE after.price = before.price
    /\ IF Present(b.description) THEN after.description = b.description
       ELSE after.description = before.description

\* Every row but the one of id is the same in both tables.
OthersSame(after, before, id) ==
    /\ DOMAIN after \ {id} = DOMAIN before \ {id}
    /\ \A i \in DOMAIN before \ {id} : after[i] = before[i]

\* C7: the UPDATE of an update request that succeeds sets, on the target
\* product, exactly the fields present in the request; the target's absent
\* fields and id, and every other product, are unchanged.
C7_UpdateFrame ==
    [][\A w \in Workers :
         (pc[w] = "update_exec" /\ pc'[w] = "update_fetch")
         => LET id == loc[w].id
            IN  /\ OthersSame(products', products, id)
                /\ (id \in DOMAIN products') = (id \in DOMAIN products)
                /\ id \in DOMAIN products
                   => UpdatedAs(products'[id], products[id], req[w].body)]_vars

\* An update of the quantity alone has succeeded on one of two stored products:
\* the returned product has the new quantity and the name it had.
C7_Witness ==
    /\ last.req.op = "update"
    /\ last.resp.status = 200
    /\ RanAlone
    /\ last.req.body = [NoBody EXCEPT !.quantity = BodyB.quantity]
    /\ last.resp.data[1].quantity = 12
    /\ last.resp.data[1].name = <<"a">>
    /\ Cardinality(DOMAIN products) = 2

\* The DELETE of a delete request that is answered with success.
DeleteSucceeds(w) ==
    pc[w] = "delete_exec" /\ pc'[w] = "idle" /\ last'.resp.status = 200

\* A successful delete removes exactly the target, for good.
HardDelete(w) ==
    /\ loc[w].id \in DOMAIN products
    /\ loc[w].id \notin DOMAIN products'
    /\ OthersSame(products', products, loc[w].id)
    /\ GetProductResp(products', loc[w].id, "ok").status = 404

\* C8 as stated: a successful delete removes exactly the target product,
\* get-product for its id is then not-found, every other product is unchanged,
\* and the confirmation message names the product that was deleted.
C8_Original ==
    [][\A w \in Workers :
         DeleteSucceeds(w)
         => /\ HardDelete(w)
            /\ last'.resp.deleted = Some(products[loc[w].id].name)]_vars

\* C8, amended: a successful delete removes exactly the target product,
\* get-product for its id is then not-found and every other product is
\* unchanged; the confirmation message carries the name the delete's existence
\* check read, which is the name of the deleted product when no other request
\* ran between that check and the DELETE.
C8_HardDelete ==
    [][\A w \in Workers :
         DeleteSucceeds(w)
         => /\ HardDelete(w)
            /\ last'.resp.deleted = loc[w].name
            /\ (last'.req.solo /\ last'.req.seq = served)
               => last'.resp.deleted = Some(products[loc[w].id].name)]_vars

\* One of two stored products has been deleted and named in the confirmation.
C8_Witness ==
    /\ last.req.op = "delete"
    /\ last.resp.status = 200
    /\ RanAlone
    /\ last.resp.deleted = Some(<<"a">>)
    /\ last.req.id \notin DOMAIN products
    /\ Cardinality(DOMAIN products) = 1

\* The table after every statement of q has run in order, starting with
\* AUTO_INCREMENT id nid.
RECURSIVE ApplyAll(_, _, _)
ApplyAll(tbl, nid, q) ==
    IF q = <<>> THEN tbl
    ELSE ApplyAll(ApplyStmt(tbl, nid, Head(q)), NextIdAfter(nid, Head(q)), Tail(q))

CheckedOut == PoolSize - pool

\* C10 as stated: every storage operation returns its connection on every exit
\* path, so at most 10 connections are checked out and none is when no
\* operation is in progress.
C10_Original ==
    /\ CheckedOut \in 0..PoolSize
    /\ dbop.kind = "idle" => CheckedOut = 0

\* A create or update body that carries an invalid field value: price <= 0,
\* quantity < 0, a name or category that is empty once trimmed, or a price
\* that rounds to 0.00.
InvalidFieldValue(b) ==
    \/ BadCreateInput(b)
    \/ IF Present(b.price) THEN Round2(b.price[1]) <= 0 ELSE FALSE

\* C11 as stated: every create or update request that carries an invalid field
\* value, a price that rounds to 0.00 included, is refused with a validation
\* error without any storage read or write issued for it.
C11_Original ==
    [][(/\ Completes
        /\ last'.req.op \in {"create", "update"}
        /\ InvalidFieldValue(last'.req.body))
       => (/\ last'.resp.status \in {400, 422}
           /\ last'.calls.reads = 0
           /\ last'.calls.writes = 0)]_vars

\* The endpoints C12 names.
DataEndpoints ==
    {"list", "get", "create", "update", "delete", "dashboard", "categories",
     "full_report", "low_stock_report"}

\* C12: a request to list, get, create, update, delete, dashboard stats,
\* categories or a report endpoint during which a storage call raises is
\* answered 500 in the step in which the call raises: no handler goes on after
\* a storage exception and none answers such a request with success.
C12_StorageFailureIs500 ==
    [][/\ \A w \in Workers : loc'[w].calls.errors = 0
       /\ (Completes /\ last'.req.op \in DataEndpoints /\ last'.calls.errors > 0)
          => (last'.resp.status = 500 /\ last'.calls.errors = 1)]_vars

\* A dashboard request whose third query raised has been answered 500.
C12_Witness ==
    /\ last.req.op = "dashboard"
    /\ last.calls.reads = 3
    /\ last.calls.errors = 1
    /\ last.resp.status = 500

\* What a storage exception's message can say.
DriverMessages == {"error", "pool", "late"}

\* C13 as stated: the body of an internal-error or unhealthy response is the
\* same for an endpoint whatever the storage exception says: it carries
\* nothing of the exception's message.
C13_Original ==
    last.resp.status \in {500, 503}
    => IF IsNone(last.resp.detail) THEN TRUE
       ELSE last.resp.detail[1].cause \notin DriverMessages

\* The positions of the placeholders of a statement, left to right.
Holes(q) == SelectSeq([k \in 1..Len(q) |-> k], LAMBDA k : q[k] = Placeholder)

\* The first piece of each condition, in the order C14 fixes.
ConditionOrder ==
    <<"category = ", "price >= ", "price <= ", "quantity >= ", "quantity <= ",
      "(name LIKE ", "quantity < 10">>
ConditionRank(piece) == CHOOSE j \in 1..Len(ConditionOrder) : ConditionOrder[j] = piece
IsCondition(piece) == \E j \in 1..Len(ConditionOrder) : ConditionOrder[j] = piece

\* The j-th filter of that order is present in f.
Given(f, j) ==
    IF j = 1 THEN f.category \notin {None, Some(<<>>)}
    ELSE IF j = 2 THEN f.min_price # None
    ELSE IF j = 3 THEN f.max_price # None
    ELSE IF j = 4 THEN f.min_quantity # None
    ELSE IF j = 5 THEN f.max_quantity # None
    ELSE IF j = 6 THEN f.search \notin {None, Some(<<>>)}
    ELSE f.low_stock = Some(TRUE)

\* The value of the filter whose placeholder follows the piece before.
ExpectedArg(before, f) ==
    IF before = "category = " THEN f.category[1]
    ELSE IF before = "price >= " THEN f.min_price[1]
    ELSE IF before = "price <= " THEN f.max_price[1]
    ELSE IF before = "quantity >= " THEN f.min_quantity[1]
    ELSE IF before = "quantity <= " THEN f.max_quantity[1]
    ELSE <<"%">> \o f.search[1] \o <<"%">>

\* C14: build_search_query writes the conditions of the present filters, and
\* no others, in the order category, min_price, max_price, min_quantity,
\* max_quantity, search, low_stock; its statement has as many placeholders as
\* its argument list has arguments, and the i-th argument is the value of the
\* filter of the i-th placeholder (%value% twice for search, none for low_stock).
C14_PlaceholdersMatchArgs ==
    output.kind = "build"
    => LET q == output.first.query
           ps == output.first.params
           f == input.filters
           holes == Holes(q)
       IN  /\ \A j \in 1..Len(ConditionOrder) :
                  Given(f, j) <=> \E k \in 1..Len(q) : q[k] = ConditionOrder[j]
           /\ \A k1, k2 \in 1..Len(q) :
                  (k1 < k2 /\ IsCondition(q[k1]) /\ IsCondition(q[k2]))
                  => ConditionRank(q[k1]) < ConditionRank(q[k2])
           /\ Len(holes) = Len(ps)
           /\ \A i \in 1..Len(holes) : ps[i] = ExpectedArg(q[holes[i] - 1], f)

\* build_search_query was called with all seven filters present.
C14_Witness ==
    /\ output.kind = "build"
    /\ \A j \in 1..Len(ConditionOrder) : Given(input.filters, j)
    /\ Len(output.first.params) = 7
    /\ output.first.params[6] = <<"%", "a", "%">>
    /\ output.first.params[7] = <<"%", "a", "%">>

\* C15: with every filter absent build_search_query returns the base
\* statement unchanged, without WHERE, and an empty argument list.
C15_NoFilters ==
    (output.kind = "build" /\ input.filters = NoFilters)
    => (/\ output.first.query = BaseQuery
        /\ \A k \in 1..Len(output.first.query) : output.first.query[k] # " WHERE "
        /\ output.first.params = <<>>)

\* build_search_query was called without filters and returned the base statement.
C15_Witness ==
    /\ output.kind = "build"
    /\ input.filters = NoFilters
    /\ output.first = [query |-> BaseQuery, params |-> <<>>]

\* C16: in the statement of get_products, for every combination of filters,
\* the placeholders of LIMIT and OFFSET are the last two placeholders and the
\* argument list ends with limit, then skip; skip = 10 and limit = 5 give an
\* argument list that ends in 5, 10.
C16_PaginationLast ==
    output.kind = "list"
    => LET q == output.first.query
           ps == output.first.params
           holes == Holes(q)
           n == Len(holes)
       IN  /\ n >= 2 /\ Len(ps) = n
           /\ holes[n] = Len(q)
           /\ q[holes[n] - 1] = " OFFSET "
           /\ q[holes[n - 1] - 1] = " ORDER BY created_at DESC LIMIT "
           /\ ps[n - 1] = input.limit
           /\ ps[n] = input.skip
           /\ (input.skip = 10 /\ input.limit = 5) => SubSeq(ps, n - 1, n) = <<5, 10>>

\* get_products built its statement for skip = 10, limit = 5 and all three filters.
C16_Witness ==
    /\ output.kind = "list"
    /\ input.skip = 10 /\ input.limit = 5
    /\ Given(input.filters, 1) /\ Given(input.filters, 6) /\ Given(input.filters, 7)
    /\ Len(output.first.params) = 5
    /\ SubSeq(output.first.params, 4, 5) = <<5, 10>>

\* The pieces of text build_search_query and get_products write.
StatementPieces ==
    {"SELECT * FROM products", "SELECT * FROM products WHERE 1=1", " WHERE ",
     " AND ", "category = ", "price >= ", "price <= ", "quantity >= ",
     "quantity <= ", "(name LIKE ", " OR description LIKE ", ")", "quantity < 10",
     " ORDER BY created_at DESC LIMIT ", " OFFSET ", Placeholder}

\* C17: the statements of build_search_query and of get_products depend only
\* on which filters are present: two requests with the same filters present
\* and other values get the same statement text, made of the fixed pieces and
\* placeholders only, the values being in the argument lists.
C17_NoValueInStatement ==
    output.kind \in {"build", "list"}
    => (/\ output.first.query = output.second.query
        /\ \A k \in 1..Len(output.first.query) :
               output.first.query[k] \in StatementPieces)

\* Two calls of build_search_query with the same six valued filters present and
\* other values returned the same statement and different arguments.
C17_Witness ==
    /\ output.kind = "build"
    /\ \A j \in 1..6 : Given(input.filters, j)
    /\ output.first.query = output.second.query
    /\ \A i \in 1..Len(output.first.params) :
           output.first.params[i] # output.second.params[i]

\* The ids of the rows of a returned page.
IdsOf(rows) == {rows[i].id : i \in 1..Len(rows)}

\* The answer to a list request for category c and low stock, given the table
\* it read: the rows of one page of the stored products of category c and
\* quantity below 10, newest first.
LowStockPageOf(tbl, rows, c, skip, limit) ==
    LET want == {i \in DOMAIN tbl : tbl[i].category = c /\ tbl[i].quantity < 10}
        rest == Cardinality(want) - skip
    IN  /\ \A i \in 1..Len(rows) : rows[i].id \in want /\ rows[i] = tbl[rows[i].id]
        /\ \A i, j \in 1..Len(rows) : i < j =>
               (rows[i].id # rows[j].id /\ rows[i].created_at >= rows[j].created_at)
        /\ Len(rows) = (IF rest < 0 THEN 0 ELSE IF rest < limit THEN rest ELSE limit)
        /\ (skip = 0 /\ limit >= Cardinality(want)) => IdsOf(rows) = want
        /\ rows # <<>> =>
               /\ \A x \in want \ IdsOf(rows) :
                      \/ tbl[x].created_at >= rows[1].created_at
                      \/ tbl[x].created_at <= rows[Len(rows)].created_at
               /\ Cardinality({x \in want \ IdsOf(rows) :
                                  tbl[x].created_at > rows[1].created_at}) <= skip

\* C18: a list request with category c and low_stock = true that succeeds
\* returns, within its page, exactly the stored products of category c and
\* quantity below 10, newest first; on the store of three products of
\* category c with quantities 2, 15 and 8 the default page holds exactly the
\* products of quantities 2 and 8.
C18_CategoryLowStock ==
    [][(/\ Completes
        /\ last'.req.op = "list"
        /\ last'.resp.status = 200
        /\ last'.req.query.category \notin {None, Some(<<>>)}
        /\ last'.req.query.low_stock = Some(TRUE)
        /\ last'.req.query.search = None)
       => LET q == last'.req.query
              rows == last'.resp.data[1]
          IN  /\ LowStockPageOf(products, rows, q.category[1], q.skip, q.limit)
              /\ (products = ToolsStore /\ q.skip = 0 /\ q.limit = 100)
                 => (Len(rows) = 2 /\ {rows[i].quantity : i \in 1..Len(rows)} = {2, 8})]_vars

\* On the store that also holds a low product of another category, the list
\* for category c and low stock returned the products of quantities 8 and 2.
C18_Witness ==
    /\ products = MixedStore
    /\ last.req.op = "list"
    /\ last.req.seq = served
    /\ last.req.query = [NoQuery EXCEPT !.category = Some(<<"c">>), !.low_stock = Some(TRUE)]
    /\ last.resp.status = 200
    /\ Len(last.resp.data[1]) = 2
    /\ last.resp.data[1][1].quantity = 8
    /\ last.resp.data[1][2].quantity = 2

\* The sum of quantity * price, in cents, over the rows of the ids of S.
RECURSIVE SumOfValues(_, _)
SumOfValues(tbl, S) ==
    IF S = {} THEN 0
    ELSE LET i == CHOOSE x \in S : \A y \in S : x <= y
         IN  tbl[i].quantity * tbl[i].price + SumOfValues(tbl, S \ {i})

\* C19: a dashboard stats request that succeeds with no other request in
\* progress or accepted while it ran reports total_products = the number of
\* products, low_stock_count = the number of products of quantity below 10 and
\* total_inventory_value = the sum of quantity * price, 0 for an empty store;
\* the products (3, 5.00) and (50, 2.00) give 2, 1 and 115.00.
C19_DashboardStats ==
    (last.req.op = "dashboard" /\ last.resp.status = 200 /\ RanAlone)
    => LET stats == last.resp.data[1]
       IN  /\ stats.total_products = Cardinality(DOMAIN products)
           /\ stats.low_stock_count =
                  Cardinality({i \in DOMAIN products : products[i].quantity < 10})
           /\ stats.total_inventory_value = SumOfValues(products, DOMAIN products)
           /\ products = EmptyTable => stats.total_inventory_value = 0
           /\ products = WidgetStore
              => (/\ stats.total_products = 2
                  /\ stats.low_stock_count = 1
                  /\ stats.total_inventory_value = 11500)

\* Dashboard stats on the store of (3, 5.00) and (50, 2.00) answered 2, 1, 115.00.
C19_Witness ==
    /\ products = WidgetStore
    /\ last.req.op = "dashboard"
    /\ last.resp.status = 200
    /\ RanAlone
    /\ last.resp.data[1].total_products = 2
    /\ last.resp.data[1].low_stock_count = 1
    /\ last.resp.data[1].total_inventory_value = 11500

\* The positions of the products of the generator's input with quantity < 10.
LowInputs == {i \in 1..Len(input.products) : input.products[i].quantity < 10}

\* C20: the low-stock report generator keeps only the products of quantity
\* below 10 of whatever list it is given: with none it prints the notice and
\* no table, otherwise a table with exactly one row for each of them and no
\* row for a product of quantity 10 or more.
C20_ReportFiltersItself ==
    output.kind = "low_stock"
    => LET doc == output.first
           ps == input.products
       IN  /\ doc.count = Cardinality(LowInputs)
           /\ LowInputs = {} => (doc.notice /\ ~doc.table /\ Len(doc.rows) = 0)
           /\ LowInputs # {} =>
                  /\ ~doc.notice
                  /\ doc.table
                  /\ Len(doc.rows) = Cardinality(LowInputs)
                  /\ \A i \in LowInputs :
                         Cardinality({j \in 1..Len(doc.rows) : doc.rows[j].id = ps[i].id}) = 1
                  /\ \A j \in 1..Len(doc.rows) : doc.rows[j].quantity < 10

\* The generator was given products on both sides of the threshold and printed
\* one row, for the low one.
C20_Witness ==
    /\ output.kind = "low_stock"
    /\ Len(input.products) = 3
    /\ Cardinality(LowInputs) = 1
    /\ \E i \in 1..Len(input.products) : input.products[i].quantity = 10
    /\ Len(output.first.rows) = 1
    /\ output.first.rows[1].quantity < 10

\* C21: every row of the low-stock report has suggested reorder
\* max(20 - quantity, 10) and priority Critical exactly when quantity < 5,
\* Low otherwise; a product of quantity 3 gets reorder 17 and Critical.
C21_ReorderAndPriority ==
    output.kind = "low_stock"
    => \A j \in 1..Len(output.first.rows) :
           LET row == output.first.rows[j]
               q == row.quantity
           IN  /\ \E i \in 1..Len(input.products) :
                      input.products[i].id = row.id /\ input.products[i].quantity = q
               /\ row.reorder = (IF 20 - q >= 10 THEN 20 - q ELSE 10)
               /\ row.priority \in {"Critical", "Low"}
               /\ row.priority = "Critical" <=> q < 5
               /\ q = 3 => (row.reorder = 17 /\ row.priority = "Critical")

\* The report holds a Critical row for a product of quantity 3 with reorder 17
\* and a Low row for a product of quantity 5.
C21_Witness ==
    /\ output.kind = "low_stock"
    /\ \E j \in 1..Len(output.first.rows) :
           /\ output.first.rows[j].quantity = 3
           /\ output.first.rows[j].price = 400
           /\ output.first.rows[j].reorder = 17
           /\ output.first.rows[j].priority = "Critical"
    /\ \E j \in 1..Len(output.first.rows) :
           /\ output.first.rows[j].quantity = 5
           /\ output.first.rows[j].priority = "Low"

\* C22 as stated: two generations of a report over the same products give the
\* same document.
C22_Original ==
    [][(output.kind # "none" /\ output'.kind = output.kind /\ input' = input)
       => output'.first = output.first]_vars

\* C23: a list request with skip < 0, limit < 1 or limit > 1000 is answered
\* 422 and runs no storage query; a list request with skip >= 0 and
\* 1 <= limit <= 1000 is accepted: its query runs and it is not answered 422.
C23_PaginationValidated ==
    [][(Completes /\ last'.req.op = "list")
       => LET q == last'.req.query
          IN  IF q.skip < 0 \/ q.limit < 1 \/ q.limit > 1000
              THEN /\ last'.resp.status = 422
                   /\ last'.calls.reads = 0
                   /\ last'.calls.writes = 0
              ELSE /\ last'.resp.status \in {200, 500}
                   /\ last'.calls.reads = 1]_vars

\* A list request with limit = 1001 was answered 422 with no storage call.
C23_Witness ==
    /\ last.req.op = "list"
    /\ last.req.query.limit = 1001
    /\ last.resp.status = 422
    /\ last.calls.reads = 0

\* C24: GET /health answers 200 with status healthy and database connected
\* exactly when its probe query succeeds, and 503 with status unhealthy and
\* database disconnected exactly when the probe fails; it never answers 500.
C24_HealthAnswers ==
    [][(Completes /\ last'.req.op = "health")
       => /\ last'.calls.reads = 1
          /\ last'.resp.status \in {200, 503}
          /\ last'.resp.status = 200 <=> last'.calls.errors = 0
          /\ last'.resp.status = 200
             => last'.resp.data = Some([status |-> "healthy", database |-> "connected"])
          /\ last'.resp.status = 503
             => last'.resp.data = Some([status |-> "unhealthy", database |-> "disconnected"])]_vars

\* A health check whose probe failed was answered 503, unhealthy, disconnected.
C24_Witness ==
    /\ last.req.op = "health"
    /\ last.calls.errors = 1
    /\ last.resp.status = 503
    /\ last.resp.data = Some([status |-> "unhealthy", database |-> "disconnected"])

\* C25: when a delete of the same id commits between an update's existence
\* check and its UPDATE statement, the UPDATE changes no row, the product stays
\* deleted and the update is not answered with success; a deleted id never
\* comes back.
C25_UpdateAfterDelete ==
    [][/\ \A w \in Workers :
              (/\ pc[w] = "update_exec"
               /\ pc'[w] # "update_exec"
               /\ req[w].existed
               /\ req[w].id \notin DOMAIN products)
              => products' = products
       /\ (/\ Completes
           /\ last'.req.op = "update"
           /\ last'.req.existed
           /\ last'.calls.matched = Some(0))
          => (/\ last'.resp.status # 200
              /\ last'.req.id \notin DOMAIN products')
       /\ \A id \in Ids :
              (id < nextId /\ id \notin DOMAIN products) => id \notin DOMAIN products']_vars

\* An update whose existence check found the product and whose UPDATE matched
\* no row, a delete of the id having succeeded in between, was answered 404.
C25_Witness ==
    /\ last.req.op = "update"
    /\ last.req.existed
    /\ last.calls.reads = 2
    /\ last.calls.writes = 1
    /\ last.calls.matched = Some(0)
    /\ last.resp.status = 404
    /\ okDeletes[last.req.id] = 1
    /\ last.req.id \notin DOMAIN products

\* C26: the rows of the low-stock report the export endpoint answers with are
\* in ascending quantity order, and rows of equal quantity in ascending name
\* order.
C26_ReportOrder ==
    [][(Completes /\ last'.req.op = "low_stock_report" /\ last'.resp.status = 200)
       => LET rows == last'.resp.data[1].rows
          IN  \A i, j \in 1..Len(rows) :
                  i < j => \/ rows[i].quantity < rows[j].quantity
                           \/ /\ rows[i].quantity = rows[j].quantity
                              /\ ~TextBefore(rows[j].name, rows[i].name)]_vars

\* The report on the store with two products of quantity 2 lists them by name,
\* before the product of quantity 8.
C26_Witness ==
    /\ products = MixedStore
    /\ last.req.op = "low_stock_report"
    /\ last.resp.status = 200
    /\ Len(last.resp.data[1].rows) = 3
    /\ last.resp.data[1].rows[1].quantity = 2
    /\ last.resp.data[1].rows[1].name = <<"a">>
    /\ last.resp.data[1].rows[2].quantity = 2
    /\ last.resp.data[1].rows[2].name = <<"x">>
    /\ last.resp.data[1].rows[3].quantity = 8

\* The step completes the second of two overlapping delete requests for one
\* id that was stored when each was accepted; last holds the first's answer.
SecondOfTwoDeletes ==
    /\ Completes
    /\ last.req.op = "delete"
    /\ last'.req.op = "delete"
    /\ last.to # last'.to
    /\ last.req.id = last'.req.id
    /\ last.req.existed
    /\ last'.req.existed
    /\ ~(last.req.solo /\ last'.req.solo)

\* C27 as stated: of two concurrent delete requests for the same existing id,
\* exactly one returns success and the other not-found.
C27_Original ==
    [][SecondOfTwoDeletes
       => {last.resp.status, last'.resp.status} = {200, 404}]_vars

\* C27, amended: of two concurrent delete requests for the same existing id,
\* at most one returns success; when no storage call of either fails, exactly
\* one returns success and the other not-found, and a delete that passed the
\* existence check and whose DELETE ran and matched no row is answered
\* not-found whenever that statement did not raise.
C27_ConcurrentDeletes ==
    [][/\ SecondOfTwoDeletes
          => /\ ~(last.resp.status = 200 /\ last'.resp.status = 200)
             /\ {last.resp.status, last'.resp.status} \subseteq {200, 404, 500}
             /\ (last.calls.errors = 0 /\ last'.calls.errors = 0)
                => {last.resp.status, last'.resp.status} = {200, 404}
       /\ (/\ Completes
           /\ last'.req.op = "delete"
           /\ last'.req.existed
           /\ last'.calls.matched = Some(0)
           /\ last'.calls.errors = 0)
          => last'.resp.status = 404]_vars

\* The second of two overlapping deletes passed the existence check, its DELETE
\* matched no row and it was answered 404, the other having succeeded.
C27_Witness ==
    /\ last.req.op = "delete"
    /\ ~last.req.solo
    /\ last.req.existed
    /\ last.calls.reads = 1
    /\ last.calls.writes = 1
    /\ last.calls.errors = 0
    /\ last.calls.matched = Some(0)
    /\ last.resp.status = 404
    /\ okDeletes[last.req.id] = 1

\* C28 as stated: a create request answered with an error has inserted no
\* row: it got no id from an INSERT and its last step left the table as it was.
C28_Original ==
    [][(Completes /\ last'.req.op = "create" /\ last'.resp.status # 200)
       => (last'.req.id = 0 /\ products' = products)]_vars

\* C29 as stated: in every dashboard stats response low_stock_count,
\* total_categories and recent_products are at most total_products.
C29_Original ==
    (last.req.op = "dashboard" /\ last.resp.status = 200)
    => LET stats == last.resp.data[1]
       IN  /\ stats.low_stock_count <= stats.total_products
           /\ stats.total_categories <= stats.total_products
           /\ stats.recent_products <= stats.total_products

\* The filters with every value that Python takes for false left out: '',
\* False and 0.
WithoutFalsy(f) ==
    [category |-> IF f.category = Some(<<>>) THEN None ELSE f.category,
     min_price |-> IF f.min_price = Some(0) THEN None ELSE f.min_price,
     max_price |-> IF f.max_price = Some(0) THEN None ELSE f.max_price,
     min_quantity |-> IF f.min_quantity = Some(0) THEN None ELSE f.min_quantity,
     max_quantity |-> IF f.max_quantity = Some(0) THEN None ELSE f.max_quantity,
     search |-> IF f.search = Some(<<>>) THEN None ELSE f.search,
     low_stock |-> IF f.low_stock = Some(FALSE) THEN None ELSE f.low_stock]

\* The filters with an empty category, an empty search and a false low_stock
\* left out.
WithoutEmpty(f) ==
    [f EXCEPT !.category = IF @ = Some(<<>>) THEN None ELSE @,
              !.search = IF @ = Some(<<>>) THEN None ELSE @,
              !.low_stock = IF @ = Some(FALSE) THEN None ELSE @]

\* The statement has the piece.
HasPiece(query, piece) == \E i \in 1..Len(query) : query[i] = piece

\* C30 as stated: in get_products and in build_search_query a falsy filter
\* value adds no condition and no argument: the statement and the arguments
\* are those built with the value left out.
C30_Original ==
    /\ output.kind = "build"
       => output.first = BuildSearchQuery(BaseQuery, WithoutFalsy(input.filters))
    /\ output.kind = "list"
       => output.first = ListQuery(QueryOf(WithoutFalsy(input.filters),
                                           input.skip, input.limit))

\* C30, amended: in get_products and in build_search_query an empty category,
\* an empty search and low_stock = false add no condition and no argument: the
\* statement and the arguments are those built with the value left out, no
\* condition on the quantity stands for low_stock = false, and get_products
\* selects the rows it selects without the value. The range filters of
\* build_search_query are different: a min_price or min_quantity of 0 is
\* given, and adds its condition and its argument.
C30_FalsyFilters ==
    LET f == input.filters
    IN  /\ output.kind = "build"
           => /\ output.first = BuildSearchQuery(BaseQuery, WithoutEmpty(f))
              /\ f.low_stock # Some(TRUE) => ~HasPiece(output.first.query, "quantity < 10")
              /\ f.category \in {None, Some(<<>>)}
                 => ~HasPiece(output.first.query, "category = ")
              /\ f.search \in {None, Some(<<>>)}
                 => ~HasPiece(output.first.query, "(name LIKE ")
              /\ f.min_price = Some(0) => HasPiece(output.first.query, "price >= ")
              /\ f.min_quantity = Some(0) => HasPiece(output.first.query, "quantity >= ")
              /\ Len(output.first.params)
                 = Len(BuildSearchQuery(BaseQuery, WithoutFalsy(f)).params)
                   + (IF f.min_price = Some(0) THEN 1 ELSE 0)
                   + (IF f.min_quantity = Some(0) THEN 1 ELSE 0)
        /\ output.kind = "list"
           => /\ output.first = ListQuery(QueryOf(WithoutEmpty(f), input.skip, input.limit))
              /\ f.low_stock # Some(TRUE) => ~HasPiece(output.first.query, "quantity < 10")
              /\ \A i \in 1..Len(MixedStore) :
                     Where(MixedStore[i], output.first.query, output.first.params)
                     = Matches(MixedStore[i],
                               QueryOf(WithoutEmpty(f), input.skip, input.limit))
              /\ (/\ f.low_stock = Some(FALSE)
                  /\ f.category \in {None, Some(<<>>)}
                  /\ f.search \in {None, Some(<<>>)})
                 => \A i \in 1..Len(MixedStore) :
                        Where(MixedStore[i], output.first.query, output.first.params)

\* get_products built its statement from an empty category, an empty search
\* and low_stock = false: the statement of a request with no filter, with the
\* two pagination arguments only.
C30_Witness ==
    /\ output.kind = "list"
    /\ input.filters.category = Some(<<>>)
    /\ input.filters.search = Some(<<>>)
    /\ input.filters.low_stock = Some(FALSE)
    /\ output.first = ListQuery([NoQuery EXCEPT !.skip = input.skip, !.limit = input.limit])
    /\ output.first.params = <<input.limit, input.skip>>
    /\ ~HasPiece(output.first.query, "quantity < 10")

====
